---- MODULE Spec2Model ----
(***************************************************************************)
(* A model of the KDPII NER labeler backend (Django + DRF): the store of   *)
(* projects, tasks, annotations, labels and uploaded files, the request    *)
(* handlers that change it, and the span algorithms of the models.         *)
(*                                                                         *)
(* The store runs in autocommit (settings.py sets no ATOMIC_REQUESTS and   *)
(* no handler opens a transaction), so every ORM write is one atomic step  *)
(* and a handler that reads and then writes is several steps.              *)
(***************************************************************************)
EXTENDS Integers, Sequences, FiniteSets, TLC

\* ------------------------------------------------------------------ bounds
MaxTasks == 2       \* tasks created in a run of the task specifications
MaxTime == 1        \* distinct values of timezone.now()
MaxAnns == 2        \* annotations created in a run
MaxPos == 2         \* largest offset a client sends as start or end
MaxLabels == 3      \* labels created in a run
MaxUploads == 2     \* files uploaded in a run
MaxRecords == 3     \* lines of an uploaded txt file, items of an uploaded json list
MaxSpans == 3       \* annotations in the store the overlap listing is run on
MaxOvPos == 10      \* largest offset of the spans overlaps_with is applied to
MaxConllAnns == 2   \* annotations of the task a CoNLL export is run on
MaxTextLen == 4     \* characters of the text whose tokens are located

\* ------------------------------------------------------------- the state
VARIABLES
    projects,       \* id -> [name]                         table "projects"
    tasks,          \* id -> Task row                       table "tasks"
    annotations,    \* id -> Annotation row                 table "annotations"
    labels,         \* id -> Label row                      table "labels"
    uploads,        \* id -> UploadedFile row
    seq,            \* the tables' auto-increment counters (ids are never reused)
    deleting,       \* delete_tag requests that passed can_be_deleted(): label ids
    uploading,      \* the upload request in progress: FileUploadViewSet.create's locals
    stats,          \* the Project.to_dict(include_stats=True) call in progress
    seen,           \* history: the statistics of the store states during that call
    edits,          \* client -> the annotation edit it has in progress
    ret             \* the last value returned by a span algorithm

vars == <<projects, tasks, annotations, labels, uploads, seq, deleting, uploading,
         stats, seen, edits, ret>>

\* SQL NULL of an integer / datetime / foreign-key column, and of a string column.
NULL == 0
None == "None"

EmptyTable == [x \in {} |-> x]

Put(table, id, row) == [x \in DOMAIN table \cup {id} |-> IF x = id THEN row ELSE table[x]]

Remove(table, ids) == [x \in DOMAIN table \ ids |-> table[x]]

\* ----------------------------------------------------------------- texts
\* A text is a sequence of one-character strings.
IsSpace(c) == c \in {" ", "\n", "\t"}

RECURSIVE LStrip(_)
LStrip(s) == IF s # <<>> /\ IsSpace(Head(s)) THEN LStrip(Tail(s)) ELSE s

RECURSIVE RStrip(_)
RStrip(s) ==
    IF s # <<>> /\ IsSpace(s[Len(s)]) THEN RStrip(SubSeq(s, 1, Len(s) - 1)) ELSE s

\* str.strip()
Strip(s) == LStrip(RStrip(s))

\* Texts a client sends as a task's text.
Texts == { <<"a">>, <<" ", "b">>, <<>> }

\* ----------------------------------------------------------------- Task
IdentifierTypes == {"direct", "quasi", "default"}

Times == 1..MaxTime

\* Task(...) with the model's field defaults (models.py 114-145).
NewTask(text, project) ==
    [ text |-> text, project |-> project, is_completed |-> FALSE,
      completion_time |-> NULL, identifier_type |-> "default",
      annotator_id |-> NULL, line_number |-> NULL, uploaded_file |-> NULL ]

DefaultProjectName == "Default Project"

NamedProjects(name) == {p \in DOMAIN projects : projects[p].name = name}

\* Task.mark_completed: the row after the call.
MarkCompletedRow(row, now, annotator_id) ==
    [row EXCEPT !.is_completed = TRUE,
                !.completion_time = now,
                !.annotator_id = IF annotator_id # NULL THEN annotator_id ELSE @]

\* Task.mark_incomplete: the row after the call.
MarkIncompleteRow(row) ==
    [row EXCEPT !.is_completed = FALSE, !.completion_time = NULL]

\* Task.set_identifier_type: the row after the call.
SetIdentifierTypeRow(row, identifier_type) ==
    [row EXCEPT !.identifier_type = identifier_type]

\* legacy create_task: get_or_create of the default project, then a new Task.
\* get_or_create raises MultipleObjectsReturned when several projects carry the
\* name; the request then fails and stores nothing.
CreateTask(text) ==
    /\ seq.task <= MaxTasks
    /\ text # <<>>
    /\ Cardinality(NamedProjects(DefaultProjectName)) <= 1
    /\ LET made == NamedProjects(DefaultProjectName) = {}
           pid == IF made THEN seq.project
                  ELSE CHOOSE p \in NamedProjects(DefaultProjectName) : TRUE
       IN /\ projects' = IF made
                         THEN Put(projects, pid, [name |-> DefaultProjectName])
                         ELSE projects
          /\ tasks' = Put(tasks, seq.task, NewTask(text, pid))
          /\ seq' = [seq EXCEPT !.task = @ + 1,
                                !.project = IF made THEN @ + 1 ELSE @]
    /\ UNCHANGED <<annotations, labels, uploads, deleting, uploading>>

\* TaskViewSet.mark_completed (POST tasks/<pk>/mark_completed/).
TaskMarkCompleted(t, now, annotator_id) ==
    /\ t \in DOMAIN tasks
    /\ tasks' = [tasks EXCEPT ![t] = MarkCompletedRow(@, now, annotator_id)]
    /\ UNCHANGED <<projects, annotations, labels, uploads, seq, deleting, uploading>>

\* TaskViewSet.mark_incomplete (POST tasks/<pk>/mark_incomplete/).
TaskMarkIncomplete(t) ==
    /\ t \in DOMAIN tasks
    /\ tasks' = [tasks EXCEPT ![t] = MarkIncompleteRow(@)]
    /\ UNCHANGED <<projects, annotations, labels, uploads, seq, deleting, uploading>>

\* Task.set_identifier_type: a value outside the enumeration raises ValueError
\* before anything is assigned or saved.
TaskSetIdentifierType(t, identifier_type) ==
    /\ t \in DOMAIN tasks
    /\ tasks' = IF identifier_type \in IdentifierTypes
                THEN [tasks EXCEPT ![t] = SetIdentifierTypeRow(@, identifier_type)]
                ELSE tasks
    /\ UNCHANGED <<projects, annotations, labels, uploads, seq, deleting, uploading>>

\* TaskAdmin.mark_completed: queryset.update(is_completed=True).
AdminMarkCompletedRow(row) == [row EXCEPT !.is_completed = TRUE]

AdminMarkCompleted(selected) ==
    /\ selected # {}
    /\ tasks' = [t \in DOMAIN tasks |->
                    IF t \in selected THEN AdminMarkCompletedRow(tasks[t]) ELSE tasks[t]]
    /\ UNCHANGED <<projects, annotations, labels, uploads, seq, deleting, uploading>>

\* TaskAdmin.mark_incomplete: queryset.update(is_completed=False, completion_time=None).
AdminMarkIncomplete(selected) ==
    /\ selected # {}
    /\ tasks' = [t \in DOMAIN tasks |->
                    IF t \in selected THEN MarkIncompleteRow(tasks[t]) ELSE tasks[t]]
    /\ UNCHANGED <<projects, annotations, labels, uploads, seq, deleting, uploading>>

\* ProjectAdmin.reset_project_stats: for each selected project, its completed
\* tasks are updated to is_completed=False, completion_time=None.
AdminResetProjectStats(selected) ==
    /\ selected # {}
    /\ tasks' = [t \in DOMAIN tasks |->
                    IF tasks[t].project \in selected /\ tasks[t].is_completed
                    THEN MarkIncompleteRow(tasks[t]) ELSE tasks[t]]
    /\ UNCHANGED <<projects, annotations, labels, uploads, seq, deleting, uploading>>

\* The fields of a Task a PUT/PATCH through TaskSerializer may carry: the
\* serializer takes fields = "__all__" and keeps only created_at, updated_at and
\* uuid read-only.
TaskWritable == {"text", "is_completed", "completion_time", "identifier_type"}

\* TaskSerializer's field validation of a payload: text is a CharField (blank
\* not allowed, whitespace trimmed), identifier_type a ChoiceField.
TaskPayloadValid(data) ==
    /\ "text" \in data.has => Strip(data.text) # <<>>
    /\ "identifier_type" \in data.has => data.identifier_type \in IdentifierTypes

\* ModelSerializer.update: setattr of every validated field, then save().
TaskUpdatedRow(row, data) ==
    [ row EXCEPT
        !.text = IF "text" \in data.has THEN Strip(data.text) ELSE @,
        !.is_completed = IF "is_completed" \in data.has THEN data.is_completed ELSE @,
        !.completion_time =
            IF "completion_time" \in data.has THEN data.completion_time ELSE @,
        !.identifier_type =
            IF "identifier_type" \in data.has THEN data.identifier_type ELSE @ ]

\* TaskViewSet update / partial_update (PUT requires text, PATCH nothing).
TaskUpdate(t, data, partial) ==
    /\ t \in DOMAIN tasks
    /\ partial \/ "text" \in data.has
    /\ tasks' = IF TaskPayloadValid(data)
                THEN [tasks EXCEPT ![t] = TaskUpdatedRow(@, data)]
                ELSE tasks
    /\ UNCHANGED <<projects, annotations, labels, uploads, seq, deleting, uploading>>

\* The payloads a client sends: any subset of the writable fields, each with a
\* value of its type (a field that is absent carries no value).
TaskPayloads ==
    UNION { { [ has |-> h, text |-> tx, is_completed |-> c,
                completion_time |-> ct, identifier_type |-> it ] :
                tx \in (IF "text" \in h THEN Texts ELSE {<<>>}),
                c \in (IF "is_completed" \in h THEN BOOLEAN ELSE {FALSE}),
                ct \in (IF "completion_time" \in h THEN {NULL} \cup Times ELSE {NULL}),
                it \in (IF "identifier_type" \in h
                        THEN IdentifierTypes \cup {"other"} ELSE {"default"}) } :
            h \in SUBSET TaskWritable }

\* ------------------------------------------------------------ Annotation
Confidences == {"high", "medium", "low"}

\* Annotation(...) with the model's field defaults (models.py 307-350).
NewAnnotation(task, start, end, text, label_list) ==
    [ task |-> task, start |-> start, end |-> end, text |-> text,
      labels |-> label_list, confidence |-> "high", identifier_type |-> "default" ]

\* A request body for an annotation: the fields it carries and their values
\* (a field that is absent carries no value).
AnnPayloads(Has, Starts, Ends, AnnTexts, LabelLists, Confs, TaskIds) ==
    UNION { { [ has |-> h, start |-> st, end |-> en, text |-> tx, labels |-> ls,
                confidence |-> cf, task |-> tk ] :
                st \in (IF "start" \in h THEN Starts ELSE {0}),
                en \in (IF "end" \in h THEN Ends ELSE {0}),
                tx \in (IF "text" \in h THEN AnnTexts ELSE {<<>>}),
                ls \in (IF "labels" \in h THEN LabelLists ELSE {<<>>}),
                cf \in (IF "confidence" \in h THEN Confs ELSE {"high"}),
                tk \in (IF "task" \in h THEN TaskIds ELSE {NULL}) } :
            h \in Has }

\* dict.get(key, default) on a request body.
Get(data, key, default) == IF key \in data.has THEN data[key] ELSE default

\* legacy add_annotation: Annotation.objects.create from request.data; start,
\* end and labels are indexed (a missing key raises KeyError, answered 400),
\* text defaults to "". Nothing validates the span.
AddAnnotation(t, data) ==
    /\ t \in DOMAIN tasks
    /\ seq.annotation <= MaxAnns
    /\ IF {"start", "end", "labels"} \subseteq data.has
       THEN /\ annotations' = Put(annotations, seq.annotation,
                    NewAnnotation(t, data.start, data.end,
                                  Get(data, "text", <<>>), data.labels))
            /\ seq' = [seq EXCEPT !.annotation = @ + 1]
       ELSE UNCHANGED <<annotations, seq>>
    /\ UNCHANGED <<projects, tasks, labels, uploads, deleting, uploading>>

\* The field validation AnnotationCreateSerializer derives from the model:
\* start, end and text are required, text is not blank, confidence is a choice.
\* The serializer declares no validate() of its own.
AnnotationCreateValid(data) ==
    /\ {"start", "end", "text"} \subseteq data.has
    /\ Strip(data.text) # <<>>
    /\ "confidence" \in data.has => data.confidence \in Confidences

\* AnnotationViewSet.create: the task comes from the serializer context, which
\* holds it only when the route carries task_pk (get_serializer_context); without
\* it create() raises KeyError and nothing is stored.
AnnotationCreate(task_pk, data) ==
    /\ task_pk = NULL \/ task_pk \in DOMAIN tasks
    /\ seq.annotation <= MaxAnns
    /\ IF AnnotationCreateValid(data) /\ task_pk # NULL
       THEN /\ annotations' = Put(annotations, seq.annotation,
                    [ NewAnnotation(task_pk, data.start, data.end, Strip(data.text),
                                    Get(data, "labels", <<>>))
                      EXCEPT !.confidence = Get(data, "confidence", "high") ])
            /\ seq' = [seq EXCEPT !.annotation = @ + 1]
       ELSE UNCHANGED <<annotations, seq>>
    /\ UNCHANGED <<projects, tasks, labels, uploads, deleting, uploading>>

\* AnnotationSerializer.validate: the span check, on the fields of the request
\* alone (a field the request does not carry counts as start 0, end 1).
AnnotationSerializerValidate(data) ==
    ~ (Get(data, "start", 0) >= Get(data, "end", 1))

\* The field validation AnnotationSerializer derives from the model.
AnnotationFieldsValid(data, partial) ==
    /\ partial \/ {"start", "end", "text", "task"} \subseteq data.has
    /\ "text" \in data.has => Strip(data.text) # <<>>
    /\ "confidence" \in data.has => data.confidence \in Confidences
    /\ "task" \in data.has => data.task \in DOMAIN tasks

\* ModelSerializer.update: setattr of every validated field on the instance.
AnnotationUpdatedRow(row, data) ==
    [ row EXCEPT
        !.start = Get(data, "start", @),
        !.end = Get(data, "end", @),
        !.text = IF "text" \in data.has THEN Strip(data.text) ELSE @,
        !.labels = Get(data, "labels", @),
        !.confidence = Get(data, "confidence", @),
        !.task = Get(data, "task", @) ]

\* AnnotationViewSet update / partial_update, as one step: the row is read,
\* changed and saved with no other request in between.
AnnotationUpdate(a, data, partial) ==
    /\ a \in DOMAIN annotations
    /\ annotations' =
            IF AnnotationFieldsValid(data, partial) /\ AnnotationSerializerValidate(data)
            THEN [annotations EXCEPT ![a] = AnnotationUpdatedRow(@, data)]
            ELSE annotations
    /\ UNCHANGED <<projects, tasks, labels, uploads, seq, deleting, uploading>>

\* AnnotationViewSet.destroy.
AnnotationDestroy(a) ==
    /\ a \in DOMAIN annotations
    /\ annotations' = Remove(annotations, {a})
    /\ UNCHANGED <<projects, tasks, labels, uploads, seq, deleting, uploading>>

\* ----------------------------------------------------------------- Label
\* The characters of the strings used as label values, colours and hotkeys.
Chars(s) ==
    CASE s = "" -> <<>>
      [] s = "1" -> <<"1">>
      [] s = "2" -> <<"2">>
      [] s = "a" -> <<"a">>
      [] s = "?" -> <<"?">>
      [] s = "ab" -> <<"a", "b">>
      [] s = "PER" -> <<"P", "E", "R">>
      [] s = "LOC" -> <<"L", "O", "C">>
      [] s = "#999999" -> <<"#", "9", "9", "9", "9", "9", "9">>
      [] s = "#ff0000" -> <<"#", "f", "f", "0", "0", "0", "0">>
      [] s = "00ff00" -> <<"0", "0", "f", "f", "0", "0">>
      [] s = "#00ff00" -> <<"#", "0", "0", "f", "f", "0", "0">>
      [] s = "red" -> <<"r", "e", "d">>

HexDigits == {"0", "1", "2", "3", "4", "5", "6", "7", "8", "9",
              "a", "b", "c", "d", "e", "f", "A", "B", "C", "D", "E", "F"}

AlnumChars == HexDigits \cup {"P", "R", "L", "O", "r", "g", "z"}

HotkeySymbols == {"!", "@", "#", "$", "%", "^", "&", "*", "(", ")"}

StartsWithHash(s) == Chars(s) # <<>> /\ Head(Chars(s)) = "#"

\* LabelSerializer.validate_background: "#", seven characters, int(value[1:], 16).
ValidateBackground(color) ==
    /\ StartsWithHash(color)
    /\ Len(Chars(color)) = 7
    /\ \A i \in 2..7 : Chars(color)[i] \in HexDigits

\* LabelSerializer.validate_hotkey: empty or None passes; otherwise one
\* character, alphanumeric or one of !@#$%^&*().
ValidateHotkey(hotkey) ==
    \/ hotkey = None
    \/ hotkey = ""
    \/ /\ Len(Chars(hotkey)) = 1
       /\ Chars(hotkey)[1] \in AlnumChars \cup HotkeySymbols

\* Label(...): the columns the model's paths set.
NewLabel(project, value, background, hotkey) ==
    [ project |-> project, value |-> value, background |-> background,
      hotkey |-> hotkey ]

\* The table's unique_together as the database enforces it for the row `row`
\* stored under `id`: (project, value) and (project, hotkey). A unique index
\* holds rows whose columns are all non-NULL; a NULL project or a NULL hotkey
\* compares unequal to everything, itself included.
UniqueTogetherHolds(id, row) ==
    \A other \in DOMAIN labels \ {id} :
        /\ ~ ( /\ row.project # NULL
               /\ labels[other].project = row.project
               /\ labels[other].value = row.value )
        /\ ~ ( /\ row.project # NULL
               /\ row.hotkey # None
               /\ labels[other].project = row.project
               /\ labels[other].hotkey = row.hotkey )

\* DRF's UniqueTogetherValidator for the serializer's two constraints: the
\* check is skipped when one of the constraint's values is None.
UniqueTogetherValidates(id, row) ==
    \A other \in DOMAIN labels \ {id} :
        /\ ~ ( /\ row.project # NULL
               /\ labels[other].project = row.project
               /\ labels[other].value = row.value )
        /\ ~ ( /\ row.project # NULL
               /\ row.hotkey # None
               /\ labels[other].project = row.project
               /\ labels[other].hotkey = row.hotkey )

\* A request body for a label.
LabelPayloads(Has, Values, Backgrounds, Hotkeys, ProjectIds) ==
    UNION { { [ has |-> h, value |-> v, background |-> bg, hotkey |-> hk,
                project |-> pr ] :
                v \in (IF "value" \in h THEN Values ELSE {""}),
                bg \in (IF "background" \in h THEN Backgrounds ELSE {""}),
                hk \in (IF "hotkey" \in h THEN Hotkeys ELSE {None}),
                pr \in (IF "project" \in h THEN ProjectIds ELSE {NULL}) } :
            h \in Has }

\* legacy create_tag: value is required; then, inside try, get_or_create of the
\* default project and Label.objects.create. An exception (several default
\* projects, a violated unique constraint) is answered 400; the project that
\* get_or_create made stays.
CreateTag(data) ==
    /\ seq.label <= MaxLabels
    /\ IF "value" \in data.has /\ data.value # ""
          /\ Cardinality(NamedProjects(DefaultProjectName)) <= 1
       THEN LET made == NamedProjects(DefaultProjectName) = {}
                pid == IF made THEN seq.project
                       ELSE CHOOSE p \in NamedProjects(DefaultProjectName) : TRUE
                row == NewLabel(pid, data.value, Get(data, "background", "#999999"),
                                Get(data, "hotkey", None))
                stored == UniqueTogetherHolds(seq.label, row)
            IN /\ projects' = IF made
                              THEN Put(projects, pid, [name |-> DefaultProjectName])
                              ELSE projects
               /\ labels' = IF stored THEN Put(labels, seq.label, row) ELSE labels
               /\ seq' = [seq EXCEPT !.label = IF stored THEN @ + 1 ELSE @,
                                     !.project = IF made THEN @ + 1 ELSE @]
       ELSE UNCHANGED <<projects, labels, seq>>
    /\ UNCHANGED <<tasks, annotations, uploads, deleting, uploading>>

\* legacy update_tag: setattr of the fields the body carries, then save(); a
\* violated unique constraint is answered 400 and stores nothing.
UpdateTagRow(row, data) ==
    [ row EXCEPT !.value = Get(data, "value", @),
                 !.background = Get(data, "background", @),
                 !.hotkey = Get(data, "hotkey", @) ]

UpdateTag(l, data) ==
    /\ l \in DOMAIN labels
    /\ data.has # {}
    /\ labels' = IF UniqueTogetherHolds(l, UpdateTagRow(labels[l], data))
                 THEN [labels EXCEPT ![l] = UpdateTagRow(@, data)]
                 ELSE labels
    /\ UNCHANGED <<projects, tasks, annotations, uploads, seq, deleting, uploading>>

\* Label.get_usage_count: the annotations, under the label's project's tasks
\* (under all tasks for a global label), whose labels hold the label's value.
\* The value of the labels column (a JSONField). A list of strings is the
\* sequence of its strings; a payload that is not a list is a tagged pair: the
\* JSON string s is JsonString(s), the JSON number n is JsonNumber(n).
JsonString(s) == <<"$string", s>>

JsonNumber(n) == <<"$number", n>>

IsJsonString(v) == Len(v) = 2 /\ v[1] = "$string"

IsJsonNumber(v) == Len(v) = 2 /\ v[1] = "$number"

\* json.loads of a string: the list it decodes to, or no list (JSONDecodeError,
\* or a value that is not a list).
JsonLoads(s) ==
    CASE s = "[\"PER\"]" -> [ok |-> TRUE, value |-> <<"PER">>]
      [] s = "[]" -> [ok |-> TRUE, value |-> <<>>]
      [] OTHER -> [ok |-> FALSE, value |-> <<>>]

\* The try block on an annotation's labels: the list the tag is taken from, or
\* an exception (JSONDecodeError, TypeError) that moves on to the next annotation.
LabelsForTag(v) ==
    IF IsJsonString(v) THEN JsonLoads(v[2])
    ELSE IF IsJsonNumber(v) THEN [ok |-> FALSE, value |-> <<>>]
    ELSE [ok |-> TRUE, value |-> v]

Contains(list, x) == \E i \in 1..Len(list) : list[i] = x

\* sub in s for two Python strings: sub occurs in s as a substring.
IsSubstring(sub, s) ==
    \E i \in 1..(Len(s) - Len(sub) + 1) : SubSeq(s, i, i + Len(sub) - 1) = sub

\* self.value in annotation.labels: membership in a list, substring of a string.
ValueInLabels(value, payload) ==
    IF IsJsonString(payload) THEN IsSubstring(value, payload[2])
    ELSE Contains(payload, value)

\* The annotations get_usage_count visits: those of the tasks of the label's
\* project, of all tasks for a global label.
UsageScope(l) ==
    { a \in DOMAIN annotations :
        /\ annotations[a].task \in DOMAIN tasks
        /\ \/ labels[l].project = NULL
           \/ tasks[annotations[a].task].project = labels[l].project }

\* self.value in annotation.labels raises TypeError when the payload is a number.
GetUsageCountRaises(l) == \E a \in UsageScope(l) : IsJsonNumber(annotations[a].labels)

GetUsageCount(l) ==
    Cardinality({ a \in UsageScope(l) :
                    ValueInLabels(labels[l].value, annotations[a].labels) })

\* Label.can_be_deleted
CanBeDeleted(l) == GetUsageCount(l) = 0

\* legacy delete_tag, first step: can_be_deleted() scans the annotations; a
\* label in use is answered 400, and an error raised by the scan leaves the view
\* (answered 500).
DeleteTagCheck(l) ==
    /\ l \in DOMAIN labels
    /\ l \notin deleting
    /\ deleting' = IF ~ GetUsageCountRaises(l) /\ CanBeDeleted(l)
                   THEN deleting \cup {l} ELSE deleting
    /\ UNCHANGED <<projects, tasks, annotations, labels, uploads, seq, uploading>>

\* legacy delete_tag, second step: label.delete().
DeleteTagDelete(l) ==
    /\ l \in deleting
    /\ labels' = Remove(labels, {l})
    /\ deleting' = deleting \ {l}
    /\ UNCHANGED <<projects, tasks, annotations, uploads, seq, uploading>>

\* The status delete_tag answers with: 500 when can_be_deleted() raises, 400 for
\* a label in use, 200 after label.delete().
DeleteTagStatus(l) ==
    IF GetUsageCountRaises(l) THEN 500
    ELSE IF ~ CanBeDeleted(l) THEN 400
    ELSE 200

\* One request to delete_tag with the label it names and the status of its
\* response; the field call alternates so that two equal requests in a row are
\* two steps.
CallDeleteTag(l) ==
    /\ DeleteTagCheck(l)
    /\ ret' = [ op |-> "delete_tag",
                call |-> IF ret.op = "delete_tag" THEN 1 - ret.call ELSE 0,
                label |-> l, status |-> DeleteTagStatus(l) ]

\* LabelViewSet.destroy: ModelViewSet's destroy, instance.delete().
LabelDestroy(l) ==
    /\ l \in DOMAIN labels
    /\ labels' = Remove(labels, {l})
    /\ UNCHANGED <<projects, tasks, annotations, uploads, seq, deleting, uploading>>

\* The field validation of LabelSerializer on the fields a request carries.
LabelFieldsValid(data) ==
    /\ "value" \in data.has => data.value # ""
    /\ "background" \in data.has => ValidateBackground(data.background)
    /\ "hotkey" \in data.has => ValidateHotkey(data.hotkey)
    /\ "project" \in data.has => data.project = NULL \/ data.project \in DOMAIN projects

LabelUpdatedRow(row, data) ==
    [ row EXCEPT !.value = Get(data, "value", @),
                 !.background = Get(data, "background", @),
                 !.hotkey = Get(data, "hotkey", @),
                 !.project = Get(data, "project", @) ]

\* LabelViewSet update / partial_update through LabelSerializer (fields =
\* "__all__": project is writable and may be null). The serializer validates,
\* save() writes, and the database has the last word.
LabelUpdate(l, data, partial) ==
    /\ l \in DOMAIN labels
    /\ partial \/ data.has = {"value", "background", "hotkey", "project"}
    /\ labels' = IF /\ LabelFieldsValid(data)
                    /\ UniqueTogetherValidates(l, LabelUpdatedRow(labels[l], data))
                    /\ UniqueTogetherHolds(l, LabelUpdatedRow(labels[l], data))
                 THEN [labels EXCEPT ![l] = LabelUpdatedRow(@, data)]
                 ELSE labels
    /\ UNCHANGED <<projects, tasks, annotations, uploads, seq, deleting, uploading>>

\* LabelViewSet.create: the serializer validates, then perform_create looks the
\* project up by the route's project_pk: get_object_or_404 answers 404 for a
\* route without it, and nothing is stored.
LabelCreate(project_pk, data) ==
    /\ seq.label <= MaxLabels
    /\ LET row == NewLabel(project_pk, data.value,
                           Get(data, "background", "#999999"), Get(data, "hotkey", None))
           stored == /\ "value" \in data.has
                     /\ LabelFieldsValid(data)
                     /\ project_pk \in DOMAIN projects
                     /\ UniqueTogetherHolds(seq.label, row)
       IN /\ labels' = IF stored THEN Put(labels, seq.label, row) ELSE labels
          /\ seq' = [seq EXCEPT !.label = IF stored THEN @ + 1 ELSE @]
    /\ UNCHANGED <<projects, tasks, annotations, uploads, deleting, uploading>>

\* frontend/static/tag.json, the seed vocabulary: an ordered list of tags.
TagFile == << [value |-> "PER", background |-> "#ff0000"],
              [value |-> "LOC", background |-> "00ff00"] >>

\* The colour a load command stores: "#" is put before one that lacks it.
WithHash(color) ==
    IF StartsWithHash(color) THEN color
    ELSE CASE color = "00ff00" -> "#00ff00"
           [] color = "red" -> "#red"

\* The hotkey a load command gives the tag at index i (0-based): 1..9, then none.
SeedHotkeyLimit == 9

SeedHotkey(i) == IF i < SeedHotkeyLimit THEN ToString(i + 1) ELSE None

\* The labels after Label.objects.get_or_create for the tags from index i on,
\* in file order, in the scope `project` (NULL: project__isnull=True). A tag whose
\* value the scope holds once is left alone; get_or_create raises when the scope
\* holds it several times or when the insert violates a unique constraint, and
\* the command ends there with the labels made so far.
RECURSIVE LoadFrom(_, _, _, _)
LoadFrom(i, project, table, next) ==
    IF i > Len(TagFile) THEN [labels |-> table, next |-> next]
    ELSE LET found == { l \in DOMAIN table :
                          table[l].project = project /\ table[l].value = TagFile[i].value }
             row == NewLabel(project, TagFile[i].value, WithHash(TagFile[i].background),
                             SeedHotkey(i - 1))
             clash == \E l \in DOMAIN table :
                        /\ project # NULL
                        /\ table[l].project = project
                        /\ row.hotkey # None
                        /\ table[l].hotkey = row.hotkey
         IN IF Cardinality(found) = 1 THEN LoadFrom(i + 1, project, table, next)
            ELSE IF Cardinality(found) > 1 \/ clash THEN [labels |-> table, next |-> next]
            ELSE LoadFrom(i + 1, project, Put(table, next, row), next + 1)

\* manage.py load_tags --project-id <p> [--clear]; the run is bounded to start
\* while the label ids it may use are within MaxLabels.
LoadTags(p, clear) ==
    /\ p \in DOMAIN projects
    /\ seq.label + Len(TagFile) <= MaxLabels + 1
    /\ LET kept == IF clear
                   THEN Remove(labels, {l \in DOMAIN labels : labels[l].project = p})
                   ELSE labels
           done == LoadFrom(1, p, kept, seq.label)
       IN /\ labels' = done.labels
          /\ seq' = [seq EXCEPT !.label = done.next]
    /\ UNCHANGED <<projects, tasks, annotations, uploads, deleting, uploading>>

\* manage.py load_global_tags [--clear]
LoadGlobalTags(clear) ==
    /\ seq.label + Len(TagFile) <= MaxLabels + 1
    /\ LET kept == IF clear
                   THEN Remove(labels, {l \in DOMAIN labels : labels[l].project = NULL})
                   ELSE labels
           done == LoadFrom(1, NULL, kept, seq.label)
       IN /\ labels' = done.labels
          /\ seq' = [seq EXCEPT !.label = done.next]
    /\ UNCHANGED <<projects, tasks, annotations, uploads, deleting, uploading>>

\* ---------------------------------------------------------- file upload
\* str.split(sep) of a text: the pieces between the separators.
RECURSIVE SplitFrom(_, _, _)
SplitFrom(s, sep, piece) ==
    IF s = <<>> THEN <<piece>>
    ELSE IF Head(s) = sep THEN <<piece>> \o SplitFrom(Tail(s), sep, <<>>)
    ELSE SplitFrom(Tail(s), sep, Append(piece, Head(s)))

Split(s, sep) == SplitFrom(s, sep, <<>>)

\* UploadedFile (the provenance record of an upload) and its two status
\* methods: mark_completed(task_count) and mark_failed(error_message).
NewUploadedFile(project, file_type, file_size) ==
    [ project |-> project, file_type |-> file_type, file_size |-> file_size,
      processing_status |-> "processing", error_message |-> None,
      total_lines |-> 0, task_count |-> 0, extracted_labels |-> {} ]

UploadMarkCompleted(row, task_count) ==
    [row EXCEPT !.processing_status = "completed", !.task_count = task_count]

UploadMarkFailed(row, message) ==
    [row EXCEPT !.processing_status = "failed", !.error_message = message]

SupportedExtensions == {"txt", "csv", "tsv", "json", "jsonl"}

\* 16 * 1024 * 1024
MaxUploadSize == 16 * 1024 * 1024

NoUpload == [pc |-> "idle"]

FileTooLargeAtLimit(file) == file.size >= MaxUploadSize

\* uploaded_file.size > 16 * 1024 * 1024
FileTooLarge(file) == file.size > MaxUploadSize

\* FileUploadViewSet.create up to the UploadedFile record: the project is
\* looked up, the extension and the size are checked (each failure is answered
\* 400 or 404 and changes nothing), the record is created in status
\* "processing" and _process_file_content starts on the file's records: the lines
\* of content.strip() for txt, the items of the parsed list for json.
UploadCreate(project_id, file) ==
    /\ uploading.pc \in {"idle", "done"}
    /\ seq.upload <= MaxUploads
    /\ IF /\ project_id \in DOMAIN projects
          /\ file.ext \in SupportedExtensions
          /\ ~ FileTooLarge(file)
       THEN /\ uploads' = Put(uploads, seq.upload,
                              NewUploadedFile(project_id, file.ext, file.size))
            /\ seq' = [seq EXCEPT !.upload = @ + 1]
            /\ uploading' =
                 [ pc |-> "processing", record |-> seq.upload, project |-> project_id,
                   ext |-> file.ext, content |-> file.content,
                   records |-> IF file.ext = "txt"
                               THEN Split(Strip(file.content), "\n")
                               ELSE file.content,
                   idx |-> 1, tasks_created |-> 0, extracted_labels |-> {} ]
       ELSE UNCHANGED <<uploads, seq, uploading>>
    /\ UNCHANGED <<projects, tasks, annotations, labels, deleting>>

\* The text _process_file_content takes from one item of a json list:
\* item.get('text', item.get('content', str(item))) for a dict, str(item) otherwise.
ItemText(item) == item.text

\* text.strip() raises AttributeError when the item's text is not a string
\* (a JSON number, list or object under "text").
ItemRaises(item) == item.kind = "dict" /\ item.text_type # "str"

\* The entity_type values one item adds to extracted_labels: those of the
\* entities of a dict item (an item without "entities" has none).
ItemEntityTypes(item) == { item.entities[k] : k \in DOMAIN item.entities }

\* Task.objects.create(**task_data) with the key 'pre_annotations', which
\* task_data gets when the item has at least one entity: Task has no field,
\* property or setter of that name, so the model's constructor raises TypeError.
TaskCreateRaises(item) == item.entities # <<>>

ReraiseOnly(row, processing_error) == row

\* except Exception as processing_error: the record is marked failed with
\* str(processing_error) before the error is raised again.
OnProcessingError(row, processing_error) == UploadMarkFailed(row, processing_error)

\* One turn of the loop of _process_file_content. txt: a non-blank stripped
\* line becomes a Task with the line's number. json: an item whose stripped text
\* is not empty becomes a Task with the item's index, after the item's entity
\* types were added to extracted_labels. Each Task.objects.create commits on its
\* own. An exception leaves the loop: create() catches it, calls
\* mark_failed(str(error)) on the record and answers 500.
UploadProcessRecord ==
    /\ uploading.pc = "processing"
    /\ uploading.idx <= Len(uploading.records)
    /\ LET rec == uploading.records[uploading.idx]
           raises == uploading.ext = "json" /\ ItemRaises(rec)
           text == IF uploading.ext = "txt" THEN Strip(rec) ELSE Strip(ItemText(rec))
           found == IF uploading.ext = "json" THEN ItemEntityTypes(rec) ELSE {}
       IN IF raises
          THEN /\ uploads' = [uploads EXCEPT ![uploading.record] =
                                OnProcessingError(@, "AttributeError")]
               /\ uploading' = [uploading EXCEPT !.pc = "done"]
               /\ UNCHANGED <<tasks, seq>>
          ELSE IF text # <<>> /\ uploading.ext = "json" /\ TaskCreateRaises(rec)
          THEN /\ uploads' = [uploads EXCEPT ![uploading.record] =
                                OnProcessingError(@, "TypeError")]
               /\ uploading' = [uploading EXCEPT !.pc = "done"]
               /\ UNCHANGED <<tasks, seq>>
          ELSE IF text # <<>>
          THEN /\ tasks' = Put(tasks, seq.task,
                            [ NewTask(text, uploading.project) EXCEPT
                                !.line_number = uploading.idx,
                                !.uploaded_file = uploading.record ])
               /\ seq' = [seq EXCEPT !.task = @ + 1]
               /\ uploading' = [uploading EXCEPT !.idx = @ + 1, !.tasks_created = @ + 1,
                                                 !.extracted_labels = @ \cup found]
               /\ UNCHANGED uploads
          ELSE /\ uploading' = [uploading EXCEPT !.idx = @ + 1,
                                                 !.extracted_labels = @ \cup found]
               /\ UNCHANGED <<tasks, seq, uploads>>
    /\ UNCHANGED <<projects, annotations, labels, deleting>>

\* The end of the upload: _process_file_content saves the extracted labels (when
\* there are any) and returns, total_lines is set and
\* mark_completed(len(tasks_created)) records the result.
UploadFinish ==
    /\ uploading.pc = "processing"
    /\ uploading.idx > Len(uploading.records)
    /\ uploads' = [uploads EXCEPT ![uploading.record] =
                     UploadMarkCompleted(
                         [@ EXCEPT !.total_lines = Len(uploading.records),
                                   !.extracted_labels = IF uploading.extracted_labels # {}
                                                        THEN uploading.extracted_labels
                                                        ELSE @],
                         uploading.tasks_created)]
    /\ uploading' = [uploading EXCEPT !.pc = "done"]
    /\ UNCHANGED <<projects, tasks, annotations, labels, seq, deleting>>

\* The status of the response create() gives before it reads the file: 404 for
\* an unknown project, 400 for an unsupported extension or a file that is too
\* large; 0 stands for no early return (the file is read and processed).
UploadEarlyStatus(project_id, file) ==
    IF project_id \notin DOMAIN projects THEN 404
    ELSE IF file.ext \notin SupportedExtensions THEN 400
    ELSE IF FileTooLarge(file) THEN 400
    ELSE 0

\* One request to FileUploadViewSet.create together with what the client sent
\* and the early response; the field call alternates so that two equal requests
\* in a row are two steps.
CallUploadCreate(project_id, file) ==
    /\ UploadCreate(project_id, file)
    /\ ret' = [ op |-> "upload_create",
                call |-> IF ret.op = "upload_create" THEN 1 - ret.call ELSE 0,
                project_id |-> project_id, ext |-> file.ext, size |-> file.size,
                status |-> UploadEarlyStatus(project_id, file) ]

\* ProjectViewSet.create: a project of any name (names are not unique).
ProjectCreate(name) ==
    /\ projects' = Put(projects, seq.project, [name |-> name])
    /\ seq' = [seq EXCEPT !.project = @ + 1]
    /\ UNCHANGED <<tasks, annotations, labels, uploads, deleting, uploading>>

\* --------------------------------------------------- project statistics
TasksOf(p) == { t \in DOMAIN tasks : tasks[t].project = p }

AnnotationsOf(t) == { a \in DOMAIN annotations : annotations[a].task = t }

\* Project.task_count
TaskCount(p) == Cardinality(TasksOf(p))

\* Project.completed_task_count
CompletedTaskCount(p) == Cardinality({ t \in TasksOf(p) : tasks[t].is_completed })

\* Project.annotation_count: the sum of the tasks' annotation counts.
AnnotationCount(p) ==
    Cardinality({ a \in DOMAIN annotations : annotations[a].task \in TasksOf(p) })

\* The labels get_label_distribution counts for one payload: the list itself,
\* the list a string decodes to, nothing when the try block raises
\* (JSONDecodeError, TypeError).
CountedLabels(payload) == LabelsForTag(payload).value

\* Project.get_label_distribution: label -> the number of times it occurs in the
\* label lists of the annotations under the project's tasks.
Occurrences(p, label) ==
    Cardinality(UNION { { <<a, i>> : i \in { k \in 1..Len(CountedLabels(annotations[a].labels)) :
                                               CountedLabels(annotations[a].labels)[k] = label } } :
                        a \in { b \in DOMAIN annotations :
                                  annotations[b].task \in TasksOf(p) } })

LabelsUsed(p) ==
    UNION { { CountedLabels(annotations[a].labels)[i] :
                i \in 1..Len(CountedLabels(annotations[a].labels)) } :
            a \in { b \in DOMAIN annotations : annotations[b].task \in TasksOf(p) } }

GetLabelDistribution(p) == [ label \in LabelsUsed(p) |-> Occurrences(p, label) ]

\* One request to get_label_distribution and the dictionary it returns.
CallGetLabelDistribution(p) ==
    /\ p \in DOMAIN projects
    /\ ret' = [ op |-> "get_label_distribution",
                call |-> IF ret.op = "get_label_distribution" THEN 1 - ret.call ELSE 0,
                project |-> p, value |-> GetLabelDistribution(p) ]
    /\ UNCHANGED <<projects, tasks, annotations, labels, uploads, seq, deleting, uploading>>

\* for label in annotation.labels, in get_statistics: the elements of a list,
\* the characters of a string; a number is not iterable (TypeError).
IteratedLabels(payload) ==
    IF IsJsonString(payload)
    THEN [i \in 1..Len(payload[2]) |-> SubSeq(payload[2], i, i)]
    ELSE payload

StatisticsRaises == \E a \in DOMAIN annotations : IsJsonNumber(annotations[a].labels)

StatisticsOccurrences(label) ==
    Cardinality(UNION { { <<a, i>> : i \in { k \in 1..Len(IteratedLabels(annotations[a].labels)) :
                                               IteratedLabels(annotations[a].labels)[k] = label } } :
                        a \in DOMAIN annotations })

StatisticsLabelsUsed ==
    UNION { { IteratedLabels(annotations[a].labels)[i] :
                i \in 1..Len(IteratedLabels(annotations[a].labels)) } :
            a \in DOMAIN annotations }

\* get_statistics: the label distribution over all annotations; an exception
\* leaves the view (answered 500).
CallGetStatistics ==
    /\ ret' = [ op |-> "get_statistics",
                call |-> IF ret.op = "get_statistics" THEN 1 - ret.call ELSE 0,
                status |-> IF StatisticsRaises THEN 500 ELSE 200,
                value |-> IF StatisticsRaises THEN EmptyTable
                          ELSE [ label \in StatisticsLabelsUsed |->
                                   StatisticsOccurrences(label) ] ]
    /\ UNCHANGED <<projects, tasks, annotations, labels, uploads, seq, deleting, uploading>>

\* The ratio completed / total, not multiplied by 100.
Ratio(completed, total) ==
    IF total = 0 THEN [num |-> 0, den |-> 1] ELSE [num |-> completed, den |-> total]

\* A percentage completed / total * 100.0 as the fraction num / den.
Percentage(completed, total) ==
    IF total = 0 THEN [num |-> 0, den |-> 1] ELSE [num |-> completed * 100, den |-> total]

SamePercentage(x, y) == x.num * y.den = y.num * x.den

\* Project.completion_percentage: task_count is read first, then
\* completed_task_count; with no request in between both see one state.
CompletionPercentage(p) == Percentage(CompletedTaskCount(p), TaskCount(p))

\* One read of the property completion_percentage and the value it gives.
CallCompletionPercentage(p) ==
    /\ p \in DOMAIN projects
    /\ ret' = [ op |-> "completion_percentage",
                call |-> IF ret.op = "completion_percentage" THEN 1 - ret.call ELSE 0,
                project |-> p, value |-> CompletionPercentage(p) ]
    /\ UNCHANGED <<projects, tasks, annotations, labels, uploads, seq, deleting, uploading>>

NoStats == [pc |-> "idle"]

\* Project.to_dict(include_stats=True) evaluates the five statistics one after
\* the other, each with its own queries; completion_percentage reads the task
\* count and then the completed count. Each read below is one step.
ToDictBegin(p) ==
    /\ stats.pc = "idle"
    /\ p \in DOMAIN projects
    /\ stats' = [ pc |-> "task_count", project |-> p, task_count |-> 0,
                  completed_task_count |-> 0, total |-> 0,
                  completion_percentage |-> Percentage(0, 0), annotation_count |-> 0,
                  label_distribution |-> EmptyTable ]

ToDictTaskCount ==
    /\ stats.pc = "task_count"
    /\ stats' = [stats EXCEPT !.task_count = TaskCount(stats.project),
                              !.pc = "completed_task_count"]

ToDictCompletedTaskCount ==
    /\ stats.pc = "completed_task_count"
    /\ stats' = [stats EXCEPT !.completed_task_count = CompletedTaskCount(stats.project),
                              !.pc = "percentage_total"]

\* completion_percentage, first read: total = self.task_count; 0.0 when zero.
ToDictPercentageTotal ==
    /\ stats.pc = "percentage_total"
    /\ stats' = [stats EXCEPT !.total = TaskCount(stats.project),
                              !.completion_percentage = Percentage(0, 0),
                              !.pc = IF TaskCount(stats.project) = 0
                                     THEN "annotation_count" ELSE "percentage_completed"]

\* completion_percentage, second read: self.completed_task_count / total * 100.0
ToDictPercentageCompleted ==
    /\ stats.pc = "percentage_completed"
    /\ stats' = [stats EXCEPT !.completion_percentage =
                                Percentage(CompletedTaskCount(stats.project), stats.total),
                              !.pc = "annotation_count"]

ToDictAnnotationCount ==
    /\ stats.pc = "annotation_count"
    /\ stats' = [stats EXCEPT !.annotation_count = AnnotationCount(stats.project),
                              !.pc = "label_distribution"]

ToDictLabelDistribution ==
    /\ stats.pc = "label_distribution"
    /\ stats' = [stats EXCEPT !.label_distribution = GetLabelDistribution(stats.project),
                              !.pc = "done"]

\* TaskViewSet.destroy: the task and, by cascade, its annotations.
TaskDestroy(t) ==
    /\ t \in DOMAIN tasks
    /\ tasks' = Remove(tasks, {t})
    /\ annotations' = Remove(annotations, AnnotationsOf(t))
    /\ UNCHANGED <<projects, labels, uploads, seq, deleting, uploading>>

\* The statistics of the store as it is: what a snapshot of one state holds.
StatsOfStore(p) ==
    [ task_count |-> TaskCount(p),
      completed_task_count |-> CompletedTaskCount(p),
      annotation_count |-> AnnotationCount(p),
      label_distribution |-> GetLabelDistribution(p) ]

\* ----------------------------------------------- edits of an annotation
\* list.remove(x): the list without the first occurrence of x.
RECURSIVE RemoveFirst(_, _)
RemoveFirst(list, x) ==
    IF list = <<>> THEN <<>>
    ELSE IF Head(list) = x THEN Tail(list)
    ELSE <<Head(list)>> \o RemoveFirst(Tail(list), x)

\* The Annotation methods below work on an instance in memory and answer the
\* instance after the call and whether the call saved it.
SetConfidenceUnchecked(row, confidence) ==
    [row |-> [row EXCEPT !.confidence = confidence], saved |-> TRUE]

\* Annotation.set_confidence: an unknown level raises ValueError.
SetConfidence(row, confidence) ==
    IF confidence \notin Confidences
    THEN [row |-> row, saved |-> FALSE]
    ELSE [row |-> [row EXCEPT !.confidence = confidence], saved |-> TRUE]

\* Annotation.set_identifier_type: an unknown type raises ValueError.
SetIdentifierType(row, identifier_type) ==
    IF identifier_type \notin IdentifierTypes
    THEN [row |-> row, saved |-> FALSE]
    ELSE [row |-> [row EXCEPT !.identifier_type = identifier_type], saved |-> TRUE]

\* Annotation.add_label
AddLabel(row, label) ==
    IF ~ Contains(row.labels, label)
    THEN [row |-> [row EXCEPT !.labels = Append(@, label)], saved |-> TRUE]
    ELSE [row |-> row, saved |-> FALSE]

\* Annotation.remove_label
RemoveLabel(row, label) ==
    IF Contains(row.labels, label)
    THEN [row |-> [row EXCEPT !.labels = RemoveFirst(@, label)], saved |-> TRUE]
    ELSE [row |-> row, saved |-> FALSE]

\* Annotation.set_labels
SetLabels(row, label_list) ==
    [row |-> [row EXCEPT !.labels = label_list], saved |-> TRUE]

\* AnnotationViewSet.partial_update on the instance get_object() loaded:
\* validation, then ModelSerializer.update sets the request's fields and saves.
PartialUpdate(row, data) ==
    IF AnnotationFieldsValid(data, TRUE) /\ AnnotationSerializerValidate(data)
    THEN [row |-> AnnotationUpdatedRow(row, data), saved |-> TRUE]
    ELSE [row |-> row, saved |-> FALSE]

\* An edit of one annotation: a method call or a PATCH body.
EditOps ==
    { [kind |-> "add_label", label |-> l] : l \in {"LOC", "ORG"} }
        \cup { [kind |-> "remove_label", label |-> "PER"] }
        \cup { [kind |-> "set_labels", labels |-> <<"LOC">>] }
        \cup { [kind |-> "set_confidence", confidence |-> c] : c \in {"low", "certain"} }
        \cup { [kind |-> "partial_update", data |-> d] :
                d \in AnnPayloads({{"labels"}, {"confidence"}}, {0}, {0}, {<<>>},
                                  {<<"PER", "MISC">>}, {"medium"}, {NULL}) }

Edited(op, row) ==
    CASE op.kind = "add_label" -> AddLabel(row, op.label)
      [] op.kind = "remove_label" -> RemoveLabel(row, op.label)
      [] op.kind = "set_labels" -> SetLabels(row, op.labels)
      [] op.kind = "set_confidence" -> SetConfidence(row, op.confidence)
      [] op.kind = "partial_update" -> PartialUpdate(row, op.data)

Clients == {1, 2}

NoEdit == [pc |-> "idle"]

\* The clients whose edit of annotation a has begun.
Editing(a) == { c \in Clients : edits[c].pc # "idle" /\ edits[c].annotation = a }

\* A request loads the Annotation into an instance (get_object(), or the
\* objects.get that precedes a method call). `before` is history: the row as it
\* was before the first edit of this annotation began.
EditLoad(c, a, op) ==
    /\ edits[c].pc = "idle"
    /\ a \in DOMAIN annotations
    /\ edits' = [edits EXCEPT ![c] =
            [ pc |-> "loaded", annotation |-> a, op |-> op, instance |-> annotations[a],
              before |-> IF Editing(a) = {} THEN annotations[a]
                         ELSE edits[CHOOSE o \in Editing(a) : TRUE].before ]]
    /\ UNCHANGED <<projects, tasks, annotations, labels, uploads, seq, deleting, uploading>>

\* The request changes its instance and calls save(), which writes every
\* column of the row from the instance.
EditSave(c) ==
    /\ edits[c].pc = "loaded"
    /\ LET done == Edited(edits[c].op, edits[c].instance)
       IN annotations' = IF done.saved
                         THEN [annotations EXCEPT ![edits[c].annotation] = done.row]
                         ELSE annotations
    /\ edits' = [edits EXCEPT ![c].pc = "done"]
    /\ UNCHANGED <<projects, tasks, labels, uploads, seq, deleting, uploading>>

\* ------------------------------------------------------- span algorithms
NoReturn == [op |-> "none"]

\* A comparison that counts two spans that only touch as overlapping.
OverlapsWithTouching(self, other) ==
    ~ (self.end < other.start \/ self.start > other.end)

\* Annotation.overlaps_with
OverlapsWith(self, other) ==
    ~ (self.end <= other.start \/ self.start >= other.end)

\* The test Task.get_overlapping_annotations applies to a pair.
PairOverlaps(ann1, ann2) ==
    ann1.start < ann2.end /\ ann2.start < ann1.end

\* A call a.overlaps_with(b) on two stored annotations.
CallOverlapsWith(a, b) ==
    /\ a \in DOMAIN annotations
    /\ b \in DOMAIN annotations
    /\ ret' = [ op |-> "overlaps_with", self |-> a, other |-> b,
                value |-> OverlapsWith(annotations[a], annotations[b]) ]
    /\ UNCHANGED <<projects, tasks, annotations, labels, uploads, seq, deleting, uploading>>

\* self.annotations.order_by("start"): the task's annotations by start; rows
\* with equal start come in an order the database chooses.
OrderByStart(t) ==
    { q \in [1..Cardinality(AnnotationsOf(t)) -> AnnotationsOf(t)] :
        /\ \A i, j \in DOMAIN q : i # j => q[i] # q[j]
        /\ \A i, j \in DOMAIN q : i < j => annotations[q[i]].start <= annotations[q[j]].start }

\* An append without the membership test.
AppendAlways(overlapping, ann) == Append(overlapping, ann)

\* `if ann not in overlapping: overlapping.append(ann)`
AppendNew(overlapping, ann) ==
    IF Contains(overlapping, ann) THEN overlapping ELSE Append(overlapping, ann)

\* The inner loop of get_overlapping_annotations: ann2 runs over annotations[i + 1 :].
RECURSIVE OverlappingInner(_, _, _, _)
OverlappingInner(order, i, j, overlapping) ==
    IF j > Len(order) THEN overlapping
    ELSE OverlappingInner(order, i, j + 1,
            IF PairOverlaps(annotations[order[i]], annotations[order[j]])
            THEN AppendNew(AppendNew(overlapping, order[i]), order[j])
            ELSE overlapping)

\* The outer loop: ann1 runs over the ordered annotations.
RECURSIVE OverlappingOuter(_, _, _)
OverlappingOuter(order, i, overlapping) ==
    IF i > Len(order) THEN overlapping
    ELSE OverlappingOuter(order, i + 1, OverlappingInner(order, i, i + 1, overlapping))

\* Task.get_overlapping_annotations, given the queryset's order.
GetOverlappingAnnotations(order) == OverlappingOuter(order, 1, <<>>)

\* A call task.get_overlapping_annotations().
CallGetOverlappingAnnotations(t) ==
    /\ t \in DOMAIN tasks
    /\ \E order \in OrderByStart(t) :
          ret' = [ op |-> "get_overlapping_annotations", task |-> t,
                   value |-> GetOverlappingAnnotations(order) ]
    /\ UNCHANGED <<projects, tasks, annotations, labels, uploads, seq, deleting, uploading>>

\* -------------------------------------------------------- CoNLL export
\* str.split(): the maximal runs of characters that are not whitespace.
RECURSIVE SplitWhitespaceFrom(_, _)
SplitWhitespaceFrom(s, piece) ==
    IF s = <<>> THEN (IF piece = <<>> THEN <<>> ELSE <<piece>>)
    ELSE IF IsSpace(Head(s))
         THEN (IF piece = <<>> THEN <<>> ELSE <<piece>>) \o SplitWhitespaceFrom(Tail(s), <<>>)
         ELSE SplitWhitespaceFrom(Tail(s), Append(piece, Head(s)))

SplitWhitespace(s) == SplitWhitespaceFrom(s, <<>>)

\* A search that starts at the beginning of the text whatever start is.
FindFromBeginning(s, sub, start) ==
    LET hits == { i \in 0..(Len(s) - Len(sub)) : SubSeq(s, i + 1, i + Len(sub)) = sub }
    IN IF hits = {} THEN -1 ELSE CHOOSE i \in hits : \A j \in hits : i <= j

\* str.find(sub, start): the lowest 0-based index at or after start where sub
\* occurs, -1 when it does not occur.
Find(s, sub, start) ==
    LET hits == { i \in start..(Len(s) - Len(sub)) : SubSeq(s, i + 1, i + Len(sub)) = sub }
    IN IF hits = {} THEN -1 ELSE CHOOSE i \in hits : \A j \in hits : i <= j

\* The loop over the tokens: token_start, token_end and current_pos.
RECURSIVE TokenSpansFrom(_, _, _, _)
TokenSpansFrom(text, tokens, k, current_pos) ==
    IF k > Len(tokens) THEN <<>>
    ELSE LET token_start == Find(text, tokens[k], current_pos)
             token_end == token_start + Len(tokens[k])
         IN <<[token |-> tokens[k], start |-> token_start, end |-> token_end]>>
                \o TokenSpansFrom(text, tokens, k + 1, token_end)

TokenSpans(text) == TokenSpansFrom(text, SplitWhitespace(text), 1, 0)

\* The test export_conll_format applies to a token and an annotation.
TokenMatches(ann, token_start, token_end) ==
    \/ ann.start <= token_start /\ token_start < ann.end
    \/ ann.start < token_end /\ token_end <= ann.end

\* A tag whose B marks a token that starts where the annotation ends.
TagAtEnd(ann, label_list, token_start) ==
    (IF token_start = ann.end THEN "B-" ELSE "I-")
        \o (IF label_list # <<>> THEN label_list[1] ELSE "MISC")

\* The B-I-O tag a matching annotation gives.
Tag(ann, label_list, token_start) ==
    (IF token_start = ann.start THEN "B-" ELSE "I-")
        \o (IF label_list # <<>> THEN label_list[1] ELSE "MISC")

\* The inner loop over self.annotations.all(): the first annotation that matches
\* and raises nothing sets the tag and ends the loop.
RECURSIVE TokenLabel(_, _, _, _)
TokenLabel(order, k, token_start, token_end) ==
    IF k > Len(order) THEN "O"
    ELSE LET ann == annotations[order[k]]
             got == LabelsForTag(ann.labels)
         IN IF TokenMatches(ann, token_start, token_end) /\ got.ok
            THEN Tag(ann, got.value, token_start)
            ELSE TokenLabel(order, k + 1, token_start, token_end)

\* self.annotations.all(): Meta.ordering is (start, end); rows equal in both
\* come in an order the database chooses.
OrderByStartEnd(t) ==
    { q \in [1..Cardinality(AnnotationsOf(t)) -> AnnotationsOf(t)] :
        /\ \A i, j \in DOMAIN q : i # j => q[i] # q[j]
        /\ \A i, j \in DOMAIN q : i < j =>
              \/ annotations[q[i]].start < annotations[q[j]].start
              \/ /\ annotations[q[i]].start = annotations[q[j]].start
                 /\ annotations[q[i]].end <= annotations[q[j]].end }

\* Task.export_conll_format: one line "token<TAB>label" per token, as the
\* sequence of the lines' two parts.
ExportConllFormat(text, order) ==
    LET spans == TokenSpans(text)
    IN [ k \in 1..Len(spans) |->
            [ token |-> spans[k].token,
              label |-> TokenLabel(order, 1, spans[k].start, spans[k].end) ] ]

\* A call task.export_conll_format().
CallExportConllFormat(t) ==
    /\ t \in DOMAIN tasks
    /\ \E order \in OrderByStartEnd(t) :
          ret' = [ op |-> "export_conll_format", task |-> t, order |-> order,
                   value |-> ExportConllFormat(tasks[t].text, order) ]
    /\ UNCHANGED <<projects, tasks, annotations, labels, uploads, seq, deleting, uploading>>

\* -------------------------------------------------- Label Studio export
\* The labels of one result value: json.loads(ann.labels) for a string payload,
\* the payload itself otherwise. Nothing catches the JSONDecodeError of a string
\* that is not JSON.
ExportedLabels(payload) ==
    IF IsJsonString(payload) THEN JsonLoads(payload[2]) ELSE [ok |-> TRUE, value |-> payload]

\* Task.export_label_studio_format over self.annotations.all(): one entry per
\* annotation with one result, and an empty predictions list; ok is FALSE when
\* building an entry raises.
ExportLabelStudioFormat(text, order) ==
    [ ok |-> \A i \in 1..Len(order) : ExportedLabels(annotations[order[i]].labels).ok,
      data |-> [text |-> text],
      annotations |->
          [ i \in 1..Len(order) |->
              [ id |-> order[i],
                result |-> << [ from_name |-> "label", to_name |-> "text", type |-> "labels",
                                value |-> [ start |-> annotations[order[i]].start,
                                            end |-> annotations[order[i]].end,
                                            text |-> annotations[order[i]].text,
                                            labels |-> ExportedLabels(
                                                annotations[order[i]].labels).value ] ] >> ] ],
      predictions |-> <<>> ]

\* A call task.export_label_studio_format().
CallExportLabelStudioFormat(t) ==
    /\ t \in DOMAIN tasks
    /\ \E order \in OrderByStartEnd(t) :
          ret' = [ op |-> "export_label_studio_format", task |-> t,
                   value |-> ExportLabelStudioFormat(tasks[t].text, order) ]
    /\ UNCHANGED <<projects, tasks, annotations, labels, uploads, seq, deleting, uploading>>

\* ------------------------------------------------------- task-level counts
\* Task.annotation_count: self.annotations.count().
TaskAnnotationCount(t) == Cardinality(AnnotationsOf(t))

EntityCountByStart(t) == Cardinality({ annotations[a].start : a \in AnnotationsOf(t) })

\* Task.entity_count: the size of the set the loop fills with
\* (annotation.start, annotation.end) of every annotation of the task.
EntityCount(t) ==
    Cardinality({ <<annotations[a].start, annotations[a].end>> : a \in AnnotationsOf(t) })

\* ---------------------------------------------------- enumeration setters
\* One call of a setter on the object objects.get loaded: the method changes
\* the instance and saves it, or raises ValueError before either. The call is
\* recorded with the value it was given and whether it raised.
CallSetConfidence(a, confidence) ==
    /\ a \in DOMAIN annotations
    /\ LET done == SetConfidence(annotations[a], confidence)
       IN /\ annotations' = IF done.saved THEN [annotations EXCEPT ![a] = done.row]
                            ELSE annotations
          /\ ret' = [ op |-> "Annotation.set_confidence",
                      call |-> IF ret.op = "Annotation.set_confidence"
                               THEN 1 - ret.call ELSE 0,
                      id |-> a, value |-> confidence, raised |-> ~ done.saved ]
    /\ UNCHANGED <<projects, tasks, labels, uploads, seq, deleting, uploading>>

CallSetIdentifierType(a, identifier_type) ==
    /\ a \in DOMAIN annotations
    /\ LET done == SetIdentifierType(annotations[a], identifier_type)
       IN /\ annotations' = IF done.saved THEN [annotations EXCEPT ![a] = done.row]
                            ELSE annotations
          /\ ret' = [ op |-> "Annotation.set_identifier_type",
                      call |-> IF ret.op = "Annotation.set_identifier_type"
                               THEN 1 - ret.call ELSE 0,
                      id |-> a, value |-> identifier_type, raised |-> ~ done.saved ]
    /\ UNCHANGED <<projects, tasks, labels, uploads, seq, deleting, uploading>>

CallTaskSetIdentifierType(t, identifier_type) ==
    /\ TaskSetIdentifierType(t, identifier_type)
    /\ ret' = [ op |-> "Task.set_identifier_type",
                call |-> IF ret.op = "Task.set_identifier_type" THEN 1 - ret.call ELSE 0,
                id |-> t, value |-> identifier_type,
                raised |-> identifier_type \notin IdentifierTypes ]

\* One run of a load command, recorded with its scope (NULL: the global labels).
CallLoadTags(p, clear) ==
    /\ LoadTags(p, clear)
    /\ ret' = [ op |-> "load_tags", call |-> IF ret.op = "load_tags" THEN 1 - ret.call ELSE 0,
                project |-> p, clear |-> clear ]

CallLoadGlobalTags(clear) ==
    /\ LoadGlobalTags(clear)
    /\ ret' = [ op |-> "load_tags", call |-> IF ret.op = "load_tags" THEN 1 - ret.call ELSE 0,
                project |-> NULL, clear |-> clear ]

\* A call task.export_conll_format(), recorded with the offsets its token loop
\* computed besides the lines it answered.
CallConllTokens(t) ==
    /\ t \in DOMAIN tasks
    /\ \E order \in OrderByStartEnd(t) :
          ret' = [ op |-> "conll_tokens", task |-> t,
                   spans |-> TokenSpans(tasks[t].text),
                   value |-> ExportConllFormat(tasks[t].text, order) ]
    /\ UNCHANGED <<projects, tasks, annotations, labels, uploads, seq, deleting, uploading>>

\* ----------------------------------- create_task, one statement at a time
\* The request of client c runs get_or_create's lookup. Without text it is
\* answered 400; with several projects of the name the lookup raises
\* MultipleObjectsReturned, which nothing catches (500); with one, the Task is
\* created under it; with none, the request goes on to create the project, and
\* other requests may run before it does. The requests in flight are held in
\* edits.
CreateTaskLookup(c, text) ==
    /\ edits[c].pc = "idle"
    /\ seq.task + Cardinality({ o \in Clients : edits[o].pc = "creating" }) <= MaxTasks
    /\ LET named == NamedProjects(DefaultProjectName)
           answer(status, task) ==
               [ op |-> "create_task",
                 call |-> IF ret.op = "create_task" THEN 1 - ret.call ELSE 0,
                 client |-> c, status |-> status, task |-> task ]
       IN IF text = <<>>
          THEN /\ ret' = answer(400, NULL)
               /\ UNCHANGED <<tasks, seq, edits>>
          ELSE IF Cardinality(named) > 1
          THEN /\ ret' = answer(500, NULL)
               /\ UNCHANGED <<tasks, seq, edits>>
          ELSE IF Cardinality(named) = 1
          THEN /\ tasks' = Put(tasks, seq.task, NewTask(text, CHOOSE p \in named : TRUE))
               /\ seq' = [seq EXCEPT !.task = @ + 1]
               /\ ret' = answer(200, seq.task)
               /\ UNCHANGED edits
          ELSE /\ edits' = [edits EXCEPT ![c] = [pc |-> "creating", text |-> text]]
               /\ UNCHANGED <<tasks, seq, ret>>
    /\ UNCHANGED <<projects, annotations, labels, uploads, deleting, uploading>>

\* get_or_create found no project: it inserts one (the name is not unique, so
\* the insert cannot fail), then Task.objects.create.
CreateTaskInsert(c) ==
    /\ edits[c].pc = "creating"
    /\ projects' = Put(projects, seq.project, [name |-> DefaultProjectName])
    /\ tasks' = Put(tasks, seq.task, NewTask(edits[c].text, seq.project))
    /\ seq' = [seq EXCEPT !.task = @ + 1, !.project = @ + 1]
    /\ edits' = [edits EXCEPT ![c] = NoEdit]
    /\ ret' = [ op |-> "create_task",
                call |-> IF ret.op = "create_task" THEN 1 - ret.call ELSE 0,
                client |-> c, status |-> 200, task |-> seq.task ]
    /\ UNCHANGED <<annotations, labels, uploads, deleting, uploading>>

\* ------------------------------------------------ the task specification
InitStore ==
    /\ projects = EmptyTable
    /\ tasks = EmptyTable
    /\ annotations = EmptyTable
    /\ labels = EmptyTable
    /\ uploads = EmptyTable
    /\ seq = [project |-> 1, task |-> 1, annotation |-> 1, label |-> 1, upload |-> 1]
    /\ deleting = {}
    /\ uploading = NoUpload
    /\ stats = NoStats
    /\ seen = {}
    /\ edits = [c \in Clients |-> NoEdit]
    /\ ret = NoReturn

Init == InitStore

Next ==
    \/ /\ UNCHANGED <<stats, seen, edits, ret>>
       /\ \E text \in Texts : CreateTask(text)
    \/ /\ UNCHANGED <<stats, seen, edits, ret>>
       /\ \E t \in DOMAIN tasks, now \in Times, who \in {NULL, 1} :
               TaskMarkCompleted(t, now, who)
    \/ /\ UNCHANGED <<stats, seen, edits, ret>>
       /\ \E t \in DOMAIN tasks : TaskMarkIncomplete(t)
    \/ /\ UNCHANGED <<stats, seen, edits, ret>>
       /\ \E t \in DOMAIN tasks, it \in IdentifierTypes \cup {"other"} :
               TaskSetIdentifierType(t, it)
    \/ /\ UNCHANGED <<stats, seen, edits, ret>>
       /\ \E selected \in SUBSET DOMAIN tasks : AdminMarkCompleted(selected)
    \/ /\ UNCHANGED <<stats, seen, edits, ret>>
       /\ \E selected \in SUBSET DOMAIN tasks : AdminMarkIncomplete(selected)
    \/ /\ UNCHANGED <<stats, seen, edits, ret>>
       /\ \E selected \in SUBSET DOMAIN projects : AdminResetProjectStats(selected)
    \/ /\ UNCHANGED <<stats, seen, edits, ret>>
       /\ \E t \in DOMAIN tasks, data \in TaskPayloads, partial \in BOOLEAN :
               TaskUpdate(t, data, partial)

Spec == Init /\ [][Next]_vars

\* ------------------------------------------ the annotation specification
SpanPos == -1..MaxPos

\* Request bodies of the annotation paths: spans of every shape, one label list.
SpanPayloads(Has) ==
    AnnPayloads(Has, SpanPos, SpanPos, {<<"a">>}, {<<"PER">>}, {"high"}, DOMAIN tasks)

NextAnn ==
    \/ /\ UNCHANGED <<stats, seen, edits, ret>>
       /\ \E text \in {<<"a">>, <<"a", "b">>} : CreateTask(text)
    \/ /\ UNCHANGED <<stats, seen, edits, ret>>
       /\ \E t \in DOMAIN tasks,
             data \in SpanPayloads({{"start", "end", "labels"}, {"start", "end", "text", "labels"},
                                    {"start", "labels"}}) :
               AddAnnotation(t, data)
    \/ /\ UNCHANGED <<stats, seen, edits, ret>>
       /\ \E t \in DOMAIN tasks \cup {NULL},
             data \in SpanPayloads({{"start", "end", "text", "labels"}, {"start", "text"}}) :
               AnnotationCreate(t, data)
    \/ /\ UNCHANGED <<stats, seen, edits, ret>>
       /\ \E a \in DOMAIN annotations, partial \in BOOLEAN,
             data \in SpanPayloads({{"start"}, {"end"}, {"start", "end"}, {"task"},
                                    {"start", "end", "text", "task"}}) :
               AnnotationUpdate(a, data, partial)
    \/ /\ UNCHANGED <<stats, seen, edits, ret>>
       /\ \E a \in DOMAIN annotations : AnnotationDestroy(a)

SpecAnn == Init /\ [][NextAnn]_vars

\* ------------------------------------------------ the label specification
\* Request bodies of the label paths.
TagPayloads(Has) ==
    LabelPayloads(Has, {"PER", "LOC"}, {"#ff0000"}, {None, "1"}, {NULL} \cup DOMAIN projects)

NextLabel ==
    \/ /\ UNCHANGED <<stats, seen, edits, ret>>
       /\ \E data \in TagPayloads({{}, {"value"}, {"value", "hotkey"}}) : CreateTag(data)
    \/ /\ UNCHANGED <<stats, seen, edits, ret>>
       /\ \E l \in DOMAIN labels, data \in TagPayloads({{}, {"value"}, {"hotkey"}}) :
               UpdateTag(l, data)
    \/ /\ UNCHANGED <<stats, seen, edits, ret>>
       /\ \E l \in DOMAIN labels, partial \in BOOLEAN,
             data \in TagPayloads({{"value"}, {"hotkey"}, {"project"},
                                   {"value", "background", "hotkey", "project"}}) :
               LabelUpdate(l, data, partial)
    \/ /\ UNCHANGED <<stats, seen, edits, ret>>
       /\ \E p \in {NULL} \cup DOMAIN projects, data \in TagPayloads({{"value"}, {"value", "hotkey"}}) :
               LabelCreate(p, data)
    \/ /\ UNCHANGED <<stats, seen, edits, ret>>
       /\ \E l \in DOMAIN labels : LabelDestroy(l)
    \/ /\ UNCHANGED <<stats, seen, edits, ret>>
       /\ \E p \in DOMAIN projects, clear \in BOOLEAN : LoadTags(p, clear)
    \/ /\ UNCHANGED <<stats, seen, edits, ret>>
       /\ \E clear \in BOOLEAN : LoadGlobalTags(clear)

SpecLabel == Init /\ [][NextLabel]_vars

\* Request bodies for labels with well-formed and malformed colours and hotkeys.
FormatPayloads(Has) ==
    LabelPayloads(Has, {"PER", "LOC"}, {"#ff0000", "red"}, {None, "1", "ab"},
                  {NULL} \cup DOMAIN projects)

NextLabelFormat ==
    \/ /\ UNCHANGED <<stats, seen, edits, ret>>
       /\ \E data \in FormatPayloads({{"value"}, {"value", "background"}, {"value", "hotkey"}}) :
               CreateTag(data)
    \/ /\ UNCHANGED <<stats, seen, edits, ret>>
       /\ \E l \in DOMAIN labels, data \in FormatPayloads({{"background"}, {"hotkey"}}) :
               UpdateTag(l, data)
    \/ /\ UNCHANGED <<stats, seen, edits, ret>>
       /\ \E l \in DOMAIN labels, data \in FormatPayloads({{"background"}, {"hotkey"}}) :
               LabelUpdate(l, data, TRUE)
    \/ /\ UNCHANGED <<stats, seen, edits, ret>>
       /\ \E p \in {NULL} \cup DOMAIN projects,
             data \in FormatPayloads({{"value", "background"}, {"value", "background", "hotkey"}}) :
               LabelCreate(p, data)

SpecLabelFormat == Init /\ [][NextLabelFormat]_vars

\* ---------------------------------------- the label-deletion specification
UsePayloads(Has) ==
    AnnPayloads(Has, {0}, {1}, {<<"a">>}, {<<"PER">>, <<"LOC">>, <<>>}, {"high"}, {NULL})

NextLabelUse ==
    \/ /\ UNCHANGED <<stats, seen, edits, ret>>
       /\ CreateTask(<<"a">>)
    \/ /\ UNCHANGED <<stats, seen, edits, ret>>
       /\ \E data \in TagPayloads({{"value"}}) : CreateTag(data)
    \/ /\ UNCHANGED <<stats, seen, edits, ret>>
       /\ LoadGlobalTags(FALSE)
    \/ /\ UNCHANGED <<stats, seen, edits, ret>>
       /\ \E t \in DOMAIN tasks, data \in UsePayloads({{"start", "end", "labels"}}) :
               AddAnnotation(t, data)
    \/ /\ UNCHANGED <<stats, seen, edits, ret>>
       /\ \E a \in DOMAIN annotations, data \in UsePayloads({{"labels"}}) :
               AnnotationUpdate(a, data, TRUE)
    \/ /\ UNCHANGED <<stats, seen, edits, ret>>
       /\ \E a \in DOMAIN annotations : AnnotationDestroy(a)
    \/ /\ UNCHANGED <<stats, seen, edits, ret>>
       /\ \E l \in DOMAIN labels : DeleteTagCheck(l)
    \/ /\ UNCHANGED <<stats, seen, edits, ret>>
       /\ \E l \in DOMAIN labels : DeleteTagDelete(l)
    \/ /\ UNCHANGED <<stats, seen, edits, ret>>
       /\ \E l \in DOMAIN labels : LabelDestroy(l)

SpecLabelUse == Init /\ [][NextLabelUse]_vars

\* The labels payloads of add_annotation, which stores request.data["labels"]
\* as it comes: lists of strings, a JSON string, a JSON number.
DeleteTagUsePayloads(Has) ==
    AnnPayloads(Has, {0}, {1}, {<<"a">>},
                {<<"PER">>, <<"LOC">>, <<>>, JsonString("PERSON"), JsonNumber("5")},
                {"high"}, {NULL})

\* Requests one after the other: no request starts while a delete_tag is
\* between its check and its delete.
NextDeleteTag ==
    \/ /\ UNCHANGED <<stats, seen, edits, ret>>
       /\ deleting = {}
       /\ CreateTask(<<"a">>)
    \/ /\ UNCHANGED <<stats, seen, edits, ret>>
       /\ deleting = {}
       /\ \E data \in TagPayloads({{"value"}}) : CreateTag(data)
    \/ /\ UNCHANGED <<stats, seen, edits, ret>>
       /\ deleting = {}
       /\ LoadGlobalTags(FALSE)
    \/ /\ UNCHANGED <<stats, seen, edits, ret>>
       /\ deleting = {}
       /\ \E t \in DOMAIN tasks, data \in DeleteTagUsePayloads({{"start", "end", "labels"}}) :
               AddAnnotation(t, data)
    \/ /\ UNCHANGED <<stats, seen, edits, ret>>
       /\ deleting = {}
       /\ \E a \in DOMAIN annotations, data \in DeleteTagUsePayloads({{"labels"}}) :
               AnnotationUpdate(a, data, TRUE)
    \/ /\ UNCHANGED <<stats, seen, edits, ret>>
       /\ deleting = {}
       /\ \E a \in DOMAIN annotations : AnnotationDestroy(a)
    \/ /\ UNCHANGED <<stats, seen, edits>>
       /\ deleting = {}
       /\ \E l \in DOMAIN labels : CallDeleteTag(l)
    \/ /\ UNCHANGED <<stats, seen, edits, ret>>
       /\ \E l \in DOMAIN labels : DeleteTagDelete(l)

SpecDeleteTag == Init /\ [][NextDeleteTag]_vars

\* ----------------------------------------------- the upload specification
\* Uploaded files: txt files of up to MaxRecords lines, json lists of up to
\* MaxRecords items, and files the checks refuse.
RECURSIVE Join(_)
Join(lines) ==
    IF Len(lines) = 1 THEN lines[1] ELSE lines[1] \o <<"\n">> \o Join(Tail(lines))

SeqsUpTo(S, n) == UNION { [1..k -> S] : k \in 0..n }

TxtLines == { <<"a">>, <<>>, <<" ", "b">> }

JsonItems == { [kind |-> "dict", text_type |-> "str", text |-> <<"a">>, entities |-> <<>>],
               [kind |-> "dict", text_type |-> "str", text |-> <<" ">>, entities |-> <<>>],
               [kind |-> "dict", text_type |-> "int", text |-> <<"5">>, entities |-> <<>>],
               [kind |-> "other", text_type |-> "str", text |-> <<"7">>, entities |-> <<>>],
               [kind |-> "dict", text_type |-> "str", text |-> <<"a">>,
                entities |-> <<"PER">>],
               [kind |-> "dict", text_type |-> "str", text |-> <<" ">>,
                entities |-> <<"LOC">>] }

UploadFiles ==
    { [ext |-> "txt", size |-> 1, content |-> Join(ls)] :
        ls \in SeqsUpTo(TxtLines, MaxRecords) \ {<<>>} }
    \cup { [ext |-> "json", size |-> 1, content |-> items] :
            items \in SeqsUpTo(JsonItems, MaxRecords) }
    \cup { [ext |-> "exe", size |-> 1, content |-> <<"a">>],
           [ext |-> "txt", size |-> MaxUploadSize + 1, content |-> <<"a">>] }

NextUpload ==
    \/ /\ UNCHANGED <<stats, seen, edits, ret>>
       /\ ProjectCreate("P")
          /\ seq.project <= 1
    \/ /\ UNCHANGED <<stats, seen, edits, ret>>
       /\ \E p \in DOMAIN projects \cup {NULL}, file \in UploadFiles : UploadCreate(p, file)
    \/ /\ UNCHANGED <<stats, seen, edits, ret>>
       /\ UploadProcessRecord
    \/ /\ UNCHANGED <<stats, seen, edits, ret>>
       /\ UploadFinish

SpecUpload == Init /\ [][NextUpload]_vars

CallFiles ==
    { [ext |-> e, size |-> n, content |-> c] :
        e \in {"txt", "exe"}, n \in {1, MaxUploadSize, MaxUploadSize + 1},
        c \in { <<"a">>, <<"a", "\n", "b">> } }
    \cup { [ext |-> "json", size |-> n, content |-> items] :
            n \in {1, MaxUploadSize, MaxUploadSize + 1},
            items \in { <<[kind |-> "dict", text_type |-> "str", text |-> <<"a">>,
                           entities |-> <<>>]>>,
                        <<[kind |-> "dict", text_type |-> "int", text |-> <<"5">>,
                           entities |-> <<>>]>>,
                        <<[kind |-> "dict", text_type |-> "str", text |-> <<"a">>,
                           entities |-> <<>>],
                          [kind |-> "dict", text_type |-> "str", text |-> <<"a">>,
                           entities |-> <<"PER">>]>> } }

NextUploadCall ==
    \/ /\ UNCHANGED <<stats, seen, edits, ret>>
       /\ ProjectCreate("P")
          /\ seq.project <= 1
    \/ /\ UNCHANGED <<stats, seen, edits>>
       /\ \E p \in DOMAIN projects \cup {NULL}, file \in CallFiles :
             CallUploadCreate(p, file)
    \/ /\ UNCHANGED <<stats, seen, edits, ret>>
       /\ UploadProcessRecord
    \/ /\ UNCHANGED <<stats, seen, edits, ret>>
       /\ UploadFinish

SpecUploadCall == Init /\ [][NextUploadCall]_vars

\* create() runs _process_file_content to its end within the request: there is
\* no queue, timer or cancellation, so a started loop takes its next turn and a
\* finished loop returns.
SpecUploadLive ==
    /\ Init
    /\ [][NextUploadCall]_vars
    /\ WF_vars(UploadProcessRecord /\ UNCHANGED <<stats, seen, edits, ret>>)
    /\ WF_vars(UploadFinish /\ UNCHANGED <<stats, seen, edits, ret>>)

\* Whether some record of the upload in progress makes _process_file_content raise.
SomeRecordRaises ==
    /\ uploading.ext = "json"
    /\ \E i \in 1..Len(uploading.records) :
          \/ ItemRaises(uploading.records[i])
          \/ /\ Strip(ItemText(uploading.records[i])) # <<>>
             /\ TaskCreateRaises(uploading.records[i])

TasksOfUpload(u) == { t \in DOMAIN tasks : tasks[t].uploaded_file = u }

\* ------------------------------------------- the statistics specification
\* One to_dict(include_stats=True) call runs while the requests of other clients
\* create, complete, reopen and delete tasks and annotations. `seen` is a history
\* variable: of the states the store was in between the call's first and last
\* read (each is the state some step of the call or of a request starts in), it
\* keeps the statistics that agree with everything the call has read so far.
ReadSoFar(st) ==
    CASE st.pc \in {"idle", "task_count"} -> {}
      [] st.pc \in {"completed_task_count"} -> {"task_count"}
      [] st.pc \in {"percentage_total", "percentage_completed", "annotation_count"} ->
            {"task_count", "completed_task_count"}
      [] st.pc = "label_distribution" ->
            {"task_count", "completed_task_count", "annotation_count"}
      [] OTHER -> {"task_count", "completed_task_count", "annotation_count",
                   "label_distribution"}

Agrees(one, st) == \A f \in ReadSoFar(st) : one[f] = st[f]

\* A request of another client: it runs until the call has returned.
ObserveStore ==
    /\ stats.pc # "done"
    /\ seen' = IF stats.pc = "idle" THEN seen
               ELSE { one \in seen \cup {StatsOfStore(stats.project)} : Agrees(one, stats) }
    /\ UNCHANGED <<stats, edits, ret>>

\* A read of the call: the store is left as it is.
ObserveRead ==
    /\ seen' = { one \in seen \cup {StatsOfStore(stats.project)} : Agrees(one, stats') }
    /\ UNCHANGED <<projects, tasks, annotations, labels, uploads, seq, deleting, uploading,
                   edits, ret>>

NextStats ==
    \/ CreateTask(<<"a">>) /\ ObserveStore
    \/ \E t \in DOMAIN tasks : TaskMarkCompleted(t, 1, NULL) /\ ObserveStore
    \/ \E t \in DOMAIN tasks : TaskMarkIncomplete(t) /\ ObserveStore
    \/ \E t \in DOMAIN tasks : TaskDestroy(t) /\ ObserveStore
    \/ \E t \in DOMAIN tasks,
          data \in AnnPayloads({{"start", "end", "labels"}}, {0}, {1}, {<<>>},
                               {<<"PER">>}, {"high"}, {NULL}) :
            AddAnnotation(t, data) /\ ObserveStore
    \/ \E a \in DOMAIN annotations : AnnotationDestroy(a) /\ ObserveStore
    \/ /\ \E p \in DOMAIN projects : ToDictBegin(p)
       /\ seen' = {}
       /\ UNCHANGED <<projects, tasks, annotations, labels, uploads, seq, deleting,
                      uploading, edits, ret>>
    \/ ToDictTaskCount /\ ObserveRead
    \/ ToDictCompletedTaskCount /\ ObserveRead
    \/ ToDictPercentageTotal /\ ObserveRead
    \/ ToDictPercentageCompleted /\ ObserveRead
    \/ ToDictAnnotationCount /\ ObserveRead
    \/ ToDictLabelDistribution /\ ObserveRead

SpecStats == Init /\ [][NextStats]_vars

\* The labels payloads add_annotation can store: lists of strings (one with a
\* label twice), a JSON string that decodes to a list, one that does not, and a
\* JSON number.
DistributionPayloads ==
    AnnPayloads({{"start", "end", "labels"}}, {0}, {1}, {<<>>},
                {<<"PER">>, <<"PER", "PER">>, <<"LOC", "PER">>, JsonString("[\"PER\"]"),
                 JsonString("PER"), JsonNumber("5")},
                {"high"}, {NULL})

NextDistribution ==
    \/ /\ UNCHANGED <<stats, seen, edits, ret>>
       /\ CreateTask(<<"a">>)
    \/ /\ UNCHANGED <<stats, seen, edits, ret>>
       /\ \E t \in DOMAIN tasks, data \in DistributionPayloads : AddAnnotation(t, data)
    \/ /\ UNCHANGED <<stats, seen, edits, ret>>
       /\ \E a \in DOMAIN annotations : AnnotationDestroy(a)
    \/ /\ UNCHANGED <<stats, seen, edits>>
       /\ \E p \in DOMAIN projects : CallGetLabelDistribution(p)
    \/ /\ UNCHANGED <<stats, seen, edits>>
       /\ CallGetStatistics

SpecDistribution == Init /\ [][NextDistribution]_vars

\* Task create, complete, uncomplete and delete one after the other, and reads
\* of completion_percentage between them.
NextCompletion ==
    \/ /\ UNCHANGED <<stats, seen, edits, ret>>
       /\ CreateTask(<<"a">>)
    \/ /\ UNCHANGED <<stats, seen, edits, ret>>
       /\ \E t \in DOMAIN tasks, who \in {NULL, 1} : TaskMarkCompleted(t, MaxTime, who)
    \/ /\ UNCHANGED <<stats, seen, edits, ret>>
       /\ \E t \in DOMAIN tasks : TaskMarkIncomplete(t)
    \/ /\ UNCHANGED <<stats, seen, edits, ret>>
       /\ \E t \in DOMAIN tasks : TaskDestroy(t)
    \/ /\ UNCHANGED <<stats, seen, edits>>
       /\ \E p \in DOMAIN projects : CallCompletionPercentage(p)

SpecCompletion == Init /\ [][NextCompletion]_vars

\* -------------------------------------------- the edit specification
\* Two clients edit annotations that carry the label PER.
NextEdit ==
    \/ /\ UNCHANGED <<stats, seen, edits, ret>>
       /\ CreateTask(<<"a">>)
    \/ /\ UNCHANGED <<stats, seen, edits, ret>>
       /\ \E t \in DOMAIN tasks,
             data \in AnnPayloads({{"start", "end", "labels"}}, {0}, {1}, {<<>>},
                                  {<<"PER">>}, {"high"}, {NULL}) :
               AddAnnotation(t, data)
    \/ /\ UNCHANGED <<stats, seen, ret>>
       /\ \E c \in Clients, a \in DOMAIN annotations, op \in EditOps : EditLoad(c, a, op)
    \/ /\ UNCHANGED <<stats, seen, ret>>
       /\ \E c \in Clients : EditSave(c)

SpecEdit == Init /\ [][NextEdit]_vars

\* ------------------------------------------ the overlaps_with specification
\* A store of one task with two annotations whose spans are any two pairs of
\* integers (nothing on the legacy path constrains a span).
OvPos == -1..MaxOvPos

InitOverlapsWith ==
    /\ projects = Put(EmptyTable, 1, [name |-> DefaultProjectName])
    /\ tasks = Put(EmptyTable, 1, NewTask(<<"a">>, 1))
    /\ \E s1, e1, s2, e2 \in OvPos :
          annotations = Put(Put(EmptyTable, 1, NewAnnotation(1, s1, e1, <<>>, <<"PER">>)),
                            2, NewAnnotation(1, s2, e2, <<>>, <<"PER">>))
    /\ labels = EmptyTable
    /\ uploads = EmptyTable
    /\ seq = [project |-> 2, task |-> 2, annotation |-> 3, label |-> 1, upload |-> 1]
    /\ deleting = {}
    /\ uploading = NoUpload
    /\ stats = NoStats
    /\ seen = {}
    /\ edits = [c \in Clients |-> NoEdit]
    /\ ret = NoReturn

NextOverlapsWith ==
    \E a, b \in DOMAIN annotations :
        CallOverlapsWith(a, b) /\ UNCHANGED <<stats, seen, edits>>

SpecOverlapsWith == InitOverlapsWith /\ [][NextOverlapsWith]_vars

\* ------------------------------------- the overlap-listing specification
\* A store of two tasks and up to MaxSpans annotations, each on either task with
\* any span over 0..MaxPos, numbered in the order of (task, start, end).
SpanKey(row) == (row.task * (MaxPos + 1) + row.start) * (MaxPos + 1) + row.end

SpanRows ==
    { NewAnnotation(t, s, e, <<>>, <<"PER">>) : t \in {1, 2}, s \in 0..MaxPos, e \in 0..MaxPos }

InitOverlapping ==
    /\ projects = Put(EmptyTable, 1, [name |-> DefaultProjectName])
    /\ tasks = Put(Put(EmptyTable, 1, NewTask(<<"a">>, 1)), 2, NewTask(<<"a">>, 1))
    /\ \E n \in 0..MaxSpans : \E rows \in [1..n -> SpanRows] :
          /\ \A i, j \in 1..n : i < j => SpanKey(rows[i]) <= SpanKey(rows[j])
          /\ annotations = rows
          /\ seq = [project |-> 2, task |-> 3, annotation |-> n + 1, label |-> 1, upload |-> 1]
    /\ labels = EmptyTable
    /\ uploads = EmptyTable
    /\ deleting = {}
    /\ uploading = NoUpload
    /\ stats = NoStats
    /\ seen = {}
    /\ edits = [c \in Clients |-> NoEdit]
    /\ ret = NoReturn

NextOverlapping ==
    \E t \in DOMAIN tasks :
        CallGetOverlappingAnnotations(t) /\ UNCHANGED <<stats, seen, edits>>

SpecOverlapping == InitOverlapping /\ [][NextOverlapping]_vars

\* ------------------------------------------- the CoNLL export specification
\* A store of one task and up to MaxConllAnns annotations of it, numbered in the
\* order of (start, end, labels): a short text with any spans inside it and any
\* labels payload, or the sentence "John lives in Seoul" with its two entities.
ConllTexts == { <<"a", "b", " ", "c">>, <<" ", "a", " ", "b">>, <<"a", "b", "c">> }

ConllLabels == << <<>>, <<"PER">>, <<"LOC", "PER">>, JsonString("LOC"),
                  JsonString("[\"PER\"]"), JsonNumber("5") >>

JohnText == << "J", "o", "h", "n", " ", "l", "i", "v", "e", "s", " ", "i", "n", " ",
               "S", "e", "o", "u", "l" >>

JohnAnnotations ==
    << NewAnnotation(1, 0, 4, <<"J", "o", "h", "n">>, <<"PERSON">>),
       NewAnnotation(1, 14, 19, <<"S", "e", "o", "u", "l">>, <<"LOC">>) >>

InitConll ==
    /\ projects = Put(EmptyTable, 1, [name |-> DefaultProjectName])
    /\ \/ /\ tasks = Put(EmptyTable, 1, NewTask(JohnText, 1))
          /\ annotations = JohnAnnotations
       \/ \E text \in ConllTexts, n \in 0..MaxConllAnns :
            \E key \in [1..n -> (0..Len(text)) \X (0..Len(text)) \X DOMAIN ConllLabels] :
                /\ \A i \in 1..n : key[i][1] <= key[i][2]
                /\ \A i, j \in 1..n : i < j =>
                      \/ key[i][1] < key[j][1]
                      \/ key[i][1] = key[j][1] /\ key[i][2] < key[j][2]
                      \/ key[i][1] = key[j][1] /\ key[i][2] = key[j][2]
                            /\ key[i][3] <= key[j][3]
                /\ tasks = Put(EmptyTable, 1, NewTask(text, 1))
                /\ annotations = [ i \in 1..n |->
                        NewAnnotation(1, key[i][1], key[i][2],
                                      SubSeq(text, key[i][1] + 1, key[i][2]),
                                      ConllLabels[key[i][3]]) ]
    /\ labels = EmptyTable
    /\ uploads = EmptyTable
    /\ seq = [project |-> 2, task |-> 2, annotation |-> Len(annotations) + 1,
              label |-> 1, upload |-> 1]
    /\ deleting = {}
    /\ uploading = NoUpload
    /\ stats = NoStats
    /\ seen = {}
    /\ edits = [c \in Clients |-> NoEdit]
    /\ ret = NoReturn

NextConll ==
    \E t \in DOMAIN tasks :
        CallExportConllFormat(t) /\ UNCHANGED <<stats, seen, edits>>

SpecConll == InitConll /\ [][NextConll]_vars

NextLabelStudio ==
    \E t \in DOMAIN tasks :
        CallExportLabelStudioFormat(t) /\ UNCHANGED <<stats, seen, edits>>

SpecLabelStudio == InitConll /\ [][NextLabelStudio]_vars

\* ------------------------------------------- the entity count specification
\* Annotations over the spans (0,3), (0,7), (3,3), (3,7) with one of two labels.
EntityPayloads ==
    AnnPayloads({{"start", "end", "labels"}}, {0, 3}, {3, 7}, {<<>>},
                {<<"PER">>, <<"LOC">>}, {"high"}, {NULL})

NextEntity ==
    \/ /\ UNCHANGED <<stats, seen, edits, ret>>
       /\ CreateTask(<<"a">>)
    \/ /\ UNCHANGED <<stats, seen, edits, ret>>
       /\ \E t \in DOMAIN tasks, data \in EntityPayloads : AddAnnotation(t, data)
    \/ /\ UNCHANGED <<stats, seen, edits, ret>>
       /\ \E a \in DOMAIN annotations : AnnotationDestroy(a)

SpecEntity == Init /\ [][NextEntity]_vars

\* ------------------------------------------------- the setter specification
\* The values handed to the setters: the enumerations, each other's members,
\* a different case and the empty string.
SetterValues == Confidences \cup IdentifierTypes \cup {"HIGH", "other", ""}

\* A store of one task with two annotations, every field at its default.
InitSetter ==
    /\ projects = Put(EmptyTable, 1, [name |-> DefaultProjectName])
    /\ tasks = Put(EmptyTable, 1, NewTask(<<"a", "b">>, 1))
    /\ annotations = Put(Put(EmptyTable, 1, NewAnnotation(1, 0, 1, <<"a">>, <<"PER">>)),
                         2, NewAnnotation(1, 1, 2, <<"b">>, <<"LOC">>))
    /\ labels = EmptyTable
    /\ uploads = EmptyTable
    /\ seq = [project |-> 2, task |-> 2, annotation |-> 3, label |-> 1, upload |-> 1]
    /\ deleting = {}
    /\ uploading = NoUpload
    /\ stats = NoStats
    /\ seen = {}
    /\ edits = [c \in Clients |-> NoEdit]
    /\ ret = NoReturn

NextSetter ==
    \/ /\ UNCHANGED <<stats, seen, edits>>
       /\ \E a \in DOMAIN annotations, v \in SetterValues : CallSetConfidence(a, v)
    \/ /\ UNCHANGED <<stats, seen, edits>>
       /\ \E a \in DOMAIN annotations, v \in SetterValues : CallSetIdentifierType(a, v)
    \/ /\ UNCHANGED <<stats, seen, edits>>
       /\ \E t \in DOMAIN tasks, v \in SetterValues : CallTaskSetIdentifierType(t, v)

SpecSetter == InitSetter /\ [][NextSetter]_vars

\* --------------------------------------------- the seed load specification
\* Labels made by create_tag before and between the loads; one project besides
\* the default one, made while the store is empty.
NextSeed ==
    \/ /\ UNCHANGED <<stats, seen, edits, ret>>
       /\ \E data \in TagPayloads({{"value"}, {"value", "hotkey"}}) : CreateTag(data)
    \/ /\ UNCHANGED <<stats, seen, edits, ret>>
       /\ projects = EmptyTable
       /\ ProjectCreate("A")
    \/ /\ UNCHANGED <<stats, seen, edits, ret>>
       /\ \E l \in DOMAIN labels : LabelDestroy(l)
    \/ /\ UNCHANGED <<stats, seen, edits>>
       /\ \E p \in DOMAIN projects, clear \in BOOLEAN : CallLoadTags(p, clear)
    \/ /\ UNCHANGED <<stats, seen, edits>>
       /\ \E clear \in BOOLEAN : CallLoadGlobalTags(clear)

SpecSeed == Init /\ [][NextSeed]_vars

\* ------------------------------------------- the token offset specification
\* A store of one task whose text is any sequence of up to MaxTextLen characters
\* out of two letters and the blank, with at most one annotation, of the whole
\* text.
InitTokens ==
    /\ projects = Put(EmptyTable, 1, [name |-> DefaultProjectName])
    /\ \E text \in SeqsUpTo({"a", "b", " "}, MaxTextLen), n \in 0..1 :
          /\ tasks = Put(EmptyTable, 1, NewTask(text, 1))
          /\ annotations = [ i \in 1..n |-> NewAnnotation(1, 0, Len(text), text, <<"PER">>) ]
    /\ labels = EmptyTable
    /\ uploads = EmptyTable
    /\ seq = [project |-> 2, task |-> 2, annotation |-> Len(annotations) + 1,
              label |-> 1, upload |-> 1]
    /\ deleting = {}
    /\ uploading = NoUpload
    /\ stats = NoStats
    /\ seen = {}
    /\ edits = [c \in Clients |-> NoEdit]
    /\ ret = NoReturn

NextTokens ==
    \E t \in DOMAIN tasks :
        CallConllTokens(t) /\ UNCHANGED <<stats, seen, edits>>

SpecTokens == InitTokens /\ [][NextTokens]_vars

\* ---------------------------------------- the default project specification
\* Two clients' create_task requests, create_tag, and projects of any name made
\* through ProjectViewSet.
NextDefaultProject ==
    \/ /\ UNCHANGED <<stats, seen>>
       /\ \E c \in Clients, text \in {<<>>, <<"a">>} : CreateTaskLookup(c, text)
    \/ /\ UNCHANGED <<stats, seen>>
       /\ \E c \in Clients : CreateTaskInsert(c)
    \/ /\ UNCHANGED <<stats, seen, edits, ret>>
       /\ \E data \in TagPayloads({{"value"}}) : CreateTag(data)
    \/ /\ UNCHANGED <<stats, seen, edits, ret>>
       /\ seq.project <= MaxTasks
       /\ \E name \in {DefaultProjectName, "A"} : ProjectCreate(name)

SpecDefaultProject == Init /\ [][NextDefaultProject]_vars

\* ------------------------------------------ the no-overlap specification
\* A store of one project whose allow_overlapping_annotations was set to false
\* (in the admin) and one task of it; annotations come and change through
\* add_annotation and AnnotationViewSet.
InitNoOverlap ==
    /\ projects = Put(EmptyTable, 1, [name |-> "A", allow_overlapping_annotations |-> FALSE])
    /\ tasks = Put(EmptyTable, 1, NewTask(<<"a", "b">>, 1))
    /\ annotations = EmptyTable
    /\ labels = EmptyTable
    /\ uploads = EmptyTable
    /\ seq = [project |-> 2, task |-> 2, annotation |-> 1, label |-> 1, upload |-> 1]
    /\ deleting = {}
    /\ uploading = NoUpload
    /\ stats = NoStats
    /\ seen = {}
    /\ edits = [c \in Clients |-> NoEdit]
    /\ ret = NoReturn

\* Request bodies with the spans (0,1), (0,2), (1,1), (1,2) of the text "ab" and
\* one of two labels.
NoOverlapPayloads(Has) ==
    AnnPayloads(Has, {0, 1}, {1, 2}, {<<"a">>}, {<<"PER">>, <<"LOC">>}, {"high"},
                DOMAIN tasks)

NextNoOverlap ==
    \/ /\ UNCHANGED <<stats, seen, edits, ret>>
       /\ \E t \in DOMAIN tasks, data \in NoOverlapPayloads({{"start", "end", "labels"}}) :
               AddAnnotation(t, data)
    \/ /\ UNCHANGED <<stats, seen, edits, ret>>
       /\ \E t \in DOMAIN tasks, data \in NoOverlapPayloads({{"start", "end", "text", "labels"}}) :
               AnnotationCreate(t, data)
    \/ /\ UNCHANGED <<stats, seen, edits, ret>>
       /\ \E a \in DOMAIN annotations, data \in NoOverlapPayloads({{"start", "end"}}) :
               AnnotationUpdate(a, data, TRUE)
    \/ /\ UNCHANGED <<stats, seen, edits, ret>>
       /\ \E a \in DOMAIN annotations : AnnotationDestroy(a)

SpecNoOverlap == InitNoOverlap /\ [][NextNoOverlap]_vars

\* C1: in every reachable state every Task has a completion_time if and only
\* if it is completed.
C1_CompletionTimeIffCompleted ==
    \A t \in DOMAIN tasks : (tasks[t].completion_time # NULL) <=> tasks[t].is_completed

\* C5: no step changes the text of a Task that exists before and after it.
C5_TextImmutable ==
    [][\A t \in DOMAIN tasks : t \in DOMAIN tasks' => tasks'[t].text = tasks[t].text]_vars

\* C2: in every reachable state every stored Annotation has
\* 0 <= start < end <= length of its task's text.
C2_SpanWithinText ==
    \A a \in DOMAIN annotations :
        /\ 0 <= annotations[a].start
        /\ annotations[a].start < annotations[a].end
        /\ annotations[a].end <= Len(tasks[annotations[a].task].text)

\* C3: a step that removes a Label row is taken only when no Annotation in the
\* label's scope holds the label's value.
C3_NoDeleteWhileReferenced ==
    [][\A l \in DOMAIN labels : l \notin DOMAIN labels' => GetUsageCount(l) = 0]_vars

\* C6: in every reachable state no two Labels of one scope (a project, or the
\* global scope of project NULL) share a value or a non-NULL hotkey.
C6_LabelsUniquePerScope ==
    \A l1, l2 \in DOMAIN labels :
        (l1 # l2 /\ labels[l1].project = labels[l2].project) =>
            /\ labels[l1].value # labels[l2].value
            /\ labels[l1].hotkey # None => labels[l1].hotkey # labels[l2].hotkey

C7_StatsFromOneState ==
    stats.pc = "done" =>
        /\ stats.completed_task_count <= stats.task_count
        /\ SamePercentage(stats.completion_percentage,
                          Percentage(stats.completed_task_count, stats.task_count))
        /\ 0 <= stats.completion_percentage.num
        /\ stats.completion_percentage.num <= 100 * stats.completion_percentage.den
        /\ \E one \in seen :
              one = [ task_count |-> stats.task_count,
                      completed_task_count |-> stats.completed_task_count,
                      annotation_count |-> stats.annotation_count,
                      label_distribution |-> stats.label_distribution ]

\* C8: when two clients have both finished an edit of the same Annotation, the
\* stored row is the result of applying the two edits one after the other, in
\* one of the two orders, to the row as it was before the edits.
C8_EditsSerialized ==
    (/\ edits[1].pc = "done"
     /\ edits[2].pc = "done"
     /\ edits[1].annotation = edits[2].annotation)
        => LET InSequence(op1, op2, row) == Edited(op2, Edited(op1, row).row).row
           IN annotations[edits[1].annotation] \in
                { InSequence(edits[1].op, edits[2].op, edits[1].before),
                  InSequence(edits[2].op, edits[1].op, edits[1].before) }

\* C9: overlaps_with(a, b) is true exactly when a.start < b.end and
\* b.start < a.end, it agrees with the test get_overlapping_annotations applies
\* to the pair, it is symmetric, it is true for (a, a) when a.start < a.end,
\* false for [0,5) against [5,10) and true for [0,5) against [4,10).
C9_OverlapsWith ==
    ret.op = "overlaps_with" =>
        LET a == annotations[ret.self]
            b == annotations[ret.other]
        IN /\ ret.value <=> (a.start < b.end /\ b.start < a.end)
           /\ ret.value <=> PairOverlaps(a, b)
           /\ ret.value <=> OverlapsWith(b, a)
           /\ (ret.self = ret.other /\ a.start < a.end) => ret.value
           /\ (a.start = 0 /\ a.end = 5 /\ b.start = 5 /\ b.end = 10) => ~ ret.value
           /\ (a.start = 0 /\ a.end = 5 /\ b.start = 4 /\ b.end = 10) => ret.value

\* A call on [0,5) and [5,10), two spans that touch, has answered.
C9_Witness ==
    /\ ret.op = "overlaps_with"
    /\ annotations[ret.self].start = 0 /\ annotations[ret.self].end = 5
    /\ annotations[ret.other].start = 5 /\ annotations[ret.other].end = 10
    /\ ~ ret.value

\* C10: get_overlapping_annotations returns no annotation twice, and what it
\* returns are exactly the task's annotations that overlap another annotation
\* of the same task (a different row with the same non-empty span included);
\* the result is empty when no pair of the task's annotations overlaps.
C10_OverlappingExact ==
    ret.op = "get_overlapping_annotations" =>
        LET mine == AnnotationsOf(ret.task)
            Overlap(a, b) == /\ annotations[a].start < annotations[b].end
                             /\ annotations[b].start < annotations[a].end
        IN /\ \A i, j \in 1..Len(ret.value) : i # j => ret.value[i] # ret.value[j]
           /\ { ret.value[i] : i \in 1..Len(ret.value) } =
                    { a \in mine : \E b \in mine \ {a} : Overlap(a, b) }
           /\ \A a \in mine : \A b \in mine \ {a} :
                    (/\ annotations[a].start = annotations[b].start
                     /\ annotations[a].end = annotations[b].end
                     /\ annotations[a].start < annotations[a].end)
                        => Contains(ret.value, a) /\ Contains(ret.value, b)
           /\ (\A a \in mine : \A b \in mine \ {a} : ~ Overlap(a, b)) => ret.value = <<>>

\* A listing of a task with three annotations, one of which overlaps both
\* others, which do not overlap each other.
C10_Witness ==
    /\ ret.op = "get_overlapping_annotations"
    /\ Len(ret.value) = 3
    /\ \E a, b, c \in AnnotationsOf(ret.task) :
          /\ a # b /\ b # c /\ a # c
          /\ PairOverlaps(annotations[a], annotations[b])
          /\ PairOverlaps(annotations[a], annotations[c])
          /\ ~ PairOverlaps(annotations[b], annotations[c])

\* C11: in an export, a token has a tag other than O exactly when its span
\* [token_start, token_end) shares a character with the span of an annotation of
\* the task whose labels the export can read as a list.
C11_TaggedIffIntersects ==
    ret.op = "export_conll_format" =>
        LET spans == TokenSpans(tasks[ret.task].text)
        IN \A k \in 1..Len(ret.value) :
              (ret.value[k].label # "O") <=>
                  \E a \in AnnotationsOf(ret.task) :
                      /\ LabelsForTag(annotations[a].labels).ok
                      /\ \E c \in spans[k].start..(spans[k].end - 1) :
                            annotations[a].start <= c /\ c < annotations[a].end

C13_TxtTaskPerLine ==
    (/\ uploading.pc = "done"
     /\ uploading.ext = "txt"
     /\ uploads[uploading.record].processing_status = "completed")
        => LET pieces == Split(uploading.content, "\n")
               lines == IF pieces[Len(pieces)] = <<>>
                        THEN SubSeq(pieces, 1, Len(pieces) - 1) ELSE pieces
               mine == TasksOfUpload(uploading.record)
           IN /\ \A i \in 1..Len(lines) :
                    Strip(lines[i]) # <<>> =>
                        Cardinality({ t \in mine : /\ tasks[t].line_number = i
                                                   /\ tasks[t].text = Strip(lines[i]) }) = 1
              /\ Cardinality(mine) =
                    Cardinality({ i \in 1..Len(lines) : Strip(lines[i]) # <<>> })
              /\ uploading.content # <<>> =>
                    uploads[uploading.record].total_lines = Len(lines)

\* C14: a json upload of a list that has completed has stored exactly one Task
\* for each element of the list, whatever the element's text (empty and
\* whitespace-only text included), numbered with the element's position.
C14_JsonTaskPerRecord ==
    (/\ uploading.pc = "done"
     /\ uploading.ext = "json"
     /\ uploads[uploading.record].processing_status = "completed")
        => LET mine == TasksOfUpload(uploading.record)
           IN /\ Cardinality(mine) = Len(uploading.content)
              /\ \A i \in 1..Len(uploading.content) :
                    Cardinality({ t \in mine : tasks[t].line_number = i }) = 1

\* C15: a json upload with a record that carries a non-empty entities list
\* succeeds: when it has ended, its status is "completed", every such record has
\* its Task, and the extracted labels of the UploadedFile are exactly the
\* entity types seen in the file.
C15_EntitiesIngested ==
    (/\ uploading.pc = "done"
     /\ uploading.ext = "json"
     /\ \E i \in 1..Len(uploading.content) : uploading.content[i].entities # <<>>)
        => /\ uploads[uploading.record].processing_status = "completed"
           /\ \A i \in 1..Len(uploading.content) :
                 uploading.content[i].entities # <<>> =>
                     \E t \in TasksOfUpload(uploading.record) : tasks[t].line_number = i
           /\ uploads[uploading.record].extracted_labels =
                 UNION { ItemEntityTypes(uploading.content[i]) :
                            i \in 1..Len(uploading.content) }

\* C16: a request to upload a file whose extension is not supported, or whose
\* size is greater than 16 MiB, is answered with an error and creates no
\* UploadedFile record and no Task (nothing in the store changes); a request
\* for a known project with a supported extension and a size of at most 16 MiB,
\* exactly 16 MiB included, is not rejected: its UploadedFile record is created.
C16_RejectedUploadChangesNothing ==
    [][ (ret' # ret /\ ret'.op = "upload_create") =>
           /\ (ret'.ext \notin SupportedExtensions \/ ret'.size > MaxUploadSize) =>
                 /\ ret'.status \in {400, 404}
                 /\ UNCHANGED <<projects, tasks, annotations, labels, uploads, seq>>
           /\ (/\ ret'.project_id \in DOMAIN projects
               /\ ret'.ext \in SupportedExtensions
               /\ ret'.size <= MaxUploadSize) =>
                 /\ ret'.status = 0
                 /\ DOMAIN uploads' = DOMAIN uploads \cup {seq.upload}
                 /\ seq.upload \notin DOMAIN uploads
                 /\ uploads'[seq.upload].file_size = ret'.size
                 /\ uploads'[seq.upload].processing_status = "processing" ]_vars

C16_Witness ==
    /\ ret.op = "upload_create"
    /\ ret.size = MaxUploadSize
    /\ ret.status = 0
    /\ \E u \in DOMAIN uploads : uploads[u].file_size = MaxUploadSize

C18_DeleteTagOnlyUnreferenced ==
    [][ /\ (ret' # ret /\ ret'.op = "delete_tag") =>
             LET l == ret'.label
                 referenced ==
                     \E a \in UsageScope(l) :
                        /\ ~ IsJsonString(annotations[a].labels)
                        /\ ~ IsJsonNumber(annotations[a].labels)
                        /\ Contains(annotations[a].labels, labels[l].value)
             IN /\ UNCHANGED <<labels, annotations, tasks, projects>>
                /\ IF referenced
                   THEN ret'.status = 400 /\ l \notin deleting'
                   ELSE ret'.status = 200 /\ l \in deleting'
        /\ (deleting' # deleting /\ deleting' \subseteq deleting) =>
             /\ labels' = Remove(labels, deleting \ deleting')
             /\ Cardinality(deleting \ deleting') = 1
             /\ UNCHANGED <<annotations, tasks, projects>> ]_vars

\* C19: the dictionary get_label_distribution returns for a project maps each
\* label string L to the number of annotations under the project's tasks whose
\* labels payload is a list of strings containing L, and has no entry for a
\* label with no such annotation; an annotation whose payload is not a list of
\* strings counts for nothing and raises no error, and get_statistics returns
\* the same counts taken over all annotations.
C19_DistributionCountsAnnotations ==
    [][ LET WellFormed(a) == /\ ~ IsJsonString(annotations[a].labels)
                             /\ ~ IsJsonNumber(annotations[a].labels)
            Holding(S, L) == { a \in S : WellFormed(a) /\ Contains(annotations[a].labels, L) }
            Agree(value, S) ==
                /\ \A L \in DOMAIN value :
                      Holding(S, L) # {} /\ value[L] = Cardinality(Holding(S, L))
                /\ \A a \in S : WellFormed(a) =>
                      \A i \in 1..Len(annotations[a].labels) :
                          annotations[a].labels[i] \in DOMAIN value
        IN /\ (ret' # ret /\ ret'.op = "get_label_distribution") =>
                 Agree(ret'.value, { a \in DOMAIN annotations :
                                       annotations[a].task \in TasksOf(ret'.project) })
           /\ (ret' # ret /\ ret'.op = "get_statistics") =>
                 ret'.status = 200 /\ Agree(ret'.value, DOMAIN annotations) ]_vars

C21_LabelStudioOneEntryPerAnnotation ==
    ret.op = "export_label_studio_format" =>
        /\ ret.value.ok
        /\ ret.value.predictions = <<>>
        /\ Len(ret.value.annotations) = Cardinality(AnnotationsOf(ret.task))
        /\ \A a \in AnnotationsOf(ret.task) :
              /\ Cardinality({ i \in 1..Len(ret.value.annotations) :
                                 ret.value.annotations[i].id = a }) = 1
              /\ \A i \in 1..Len(ret.value.annotations) :
                    ret.value.annotations[i].id = a =>
                        /\ Len(ret.value.annotations[i].result) = 1
                        /\ LET v == ret.value.annotations[i].result[1].value
                           IN /\ v.start = annotations[a].start
                              /\ v.end = annotations[a].end
                              /\ v.text = annotations[a].text
                              /\ \/ v.labels = annotations[a].labels
                                 \/ /\ IsJsonString(annotations[a].labels)
                                    /\ v.labels = JsonLoads(annotations[a].labels[2]).value

\* C22: in every reachable state the text of every stored Annotation is the
\* substring text[start:end] of its task's text (a Python slice: a negative
\* index counts from the end, and both indexes are clamped to the text).
C22_TextIsSubstring ==
    \A a \in DOMAIN annotations :
        LET text == tasks[annotations[a].task].text
            Clamp(i) == IF i < 0
                        THEN (IF i + Len(text) < 0 THEN 0 ELSE i + Len(text))
                        ELSE (IF i > Len(text) THEN Len(text) ELSE i)
        IN annotations[a].text =
              SubSeq(text, Clamp(annotations[a].start) + 1, Clamp(annotations[a].end))

\* C23: in every reachable state every stored Label has a background of "#"
\* followed by six hexadecimal digits and a hotkey that is null, empty, or one
\* alphanumeric character or one of !@#$%^&*().
C23_LabelFormatsValid ==
    \A l \in DOMAIN labels :
        /\ ValidateBackground(labels[l].background)
        /\ ValidateHotkey(labels[l].hotkey)

\* C24: in every reachable state, for every task, entity_count is the number of
\* distinct (start, end) pairs among the task's annotations (one representative
\* per span: the annotations no earlier annotation of the task shares the span
\* with), it is at most annotation_count, and it is 0 exactly when the task has
\* no annotations.
C24_EntityCountDistinctSpans ==
    \A t \in DOMAIN tasks :
        LET SameSpan(a, b) == /\ annotations[a].start = annotations[b].start
                              /\ annotations[a].end = annotations[b].end
            First == { a \in AnnotationsOf(t) :
                         \A b \in AnnotationsOf(t) : SameSpan(a, b) => a <= b }
        IN /\ EntityCount(t) = Cardinality(First)
           /\ EntityCount(t) <= TaskAnnotationCount(t)
           /\ EntityCount(t) = 0 <=> AnnotationsOf(t) = {}

\* A task holds two annotations of the span (3,7) with different labels, counted
\* as one entity among two annotations.
C24_Witness ==
    /\ \E t \in DOMAIN tasks : \E a, b \in AnnotationsOf(t) :
          /\ annotations[a].start = 3 /\ annotations[a].end = 7
          /\ annotations[b].start = 3 /\ annotations[b].end = 7
          /\ annotations[a].labels # annotations[b].labels
          /\ EntityCount(t) = 1 /\ TaskAnnotationCount(t) = 2

\* C25: a call of Annotation.set_confidence with high, medium or low, or of
\* Annotation.set_identifier_type or Task.set_identifier_type with direct, quasi
\* or default, does not raise and stores the value; a call with any other value
\* raises and leaves annotations and tasks as they were; and every stored
\* confidence and identifier_type stays inside its enumeration.
C25_SettersKeepEnumerations ==
    /\ [](/\ \A a \in DOMAIN annotations :
                /\ annotations[a].confidence \in {"high", "medium", "low"}
                /\ annotations[a].identifier_type \in {"direct", "quasi", "default"}
          /\ \A t \in DOMAIN tasks :
                tasks[t].identifier_type \in {"direct", "quasi", "default"})
    /\ [][ret' # ret =>
            LET accepted ==
                    IF ret'.op = "Annotation.set_confidence"
                    THEN ret'.value \in {"high", "medium", "low"}
                    ELSE ret'.value \in {"direct", "quasi", "default"}
                stored ==
                    IF ret'.op = "Annotation.set_confidence"
                    THEN annotations'[ret'.id].confidence
                    ELSE IF ret'.op = "Annotation.set_identifier_type"
                    THEN annotations'[ret'.id].identifier_type
                    ELSE tasks'[ret'.id].identifier_type
            IN IF accepted
               THEN ~ ret'.raised /\ stored = ret'.value
               ELSE ret'.raised /\ annotations' = annotations /\ tasks' = tasks]_vars

\* Each of the three setters has raised on a value outside its enumeration, here
\* the annotation's set_confidence on a member of the other enumeration, after
\* the annotation's confidence had been set to low.
C25_Witness ==
    /\ ret.op = "Annotation.set_confidence"
    /\ ret.value = "direct"
    /\ ret.raised
    /\ annotations[ret.id].confidence = "low"
    /\ annotations[ret.id].identifier_type = "quasi"
    /\ tasks[annotations[ret.id].task].identifier_type = "direct"

\* C26: after a run of load_tags for a project or of load_global_tags, the scope
\* holds for every entry of the seed file a label with the entry's value whose
\* hotkey is the entry's 1-based position for the first nine entries and none
\* for the later ones, and the same load run again on the result (without
\* --clear) creates no label and changes none.
C26_SeedHotkeysByPosition ==
    [][ret' # ret /\ ret'.op = "load_tags" =>
        /\ \A i \in 1..Len(TagFile) :
              \E l \in DOMAIN labels' :
                  /\ labels'[l].project = ret'.project
                  /\ labels'[l].value = TagFile[i].value
                  /\ labels'[l].hotkey = IF i <= 9 THEN ToString(i) ELSE None
        /\ LoadFrom(1, ret'.project, labels', seq'.label).labels = labels']_vars

\* C27: after export_conll_format, the offsets of every token are those of the
\* token's occurrence in the text: token_start is not -1, the text between
\* token_start and token_end is the token, the tokens are the maximal runs
\* without whitespace (only whitespace lies before the first, between two
\* neighbours and after the last), each starts at or after the end of the one
\* before and after its start, and the output has one line per token, in the
\* order of the text.
C27_TokenOffsetsTrue ==
    ret.op = "conll_tokens" =>
        LET text == tasks[ret.task].text
            spans == ret.spans
            n == Len(spans)
            Blank(from, to) == \A i \in (from + 1)..to : IsSpace(text[i])
        IN /\ \A k \in 1..n :
                /\ spans[k].start # -1
                /\ spans[k].start >= 0 /\ spans[k].start < spans[k].end
                /\ spans[k].end <= Len(text)
                /\ SubSeq(text, spans[k].start + 1, spans[k].end) = spans[k].token
                /\ \A i \in (spans[k].start + 1)..spans[k].end : ~ IsSpace(text[i])
                /\ Blank(IF k = 1 THEN 0 ELSE spans[k - 1].end, spans[k].start)
                /\ k > 1 => /\ spans[k].start >= spans[k - 1].end
                            /\ spans[k].start > spans[k - 1].start
           /\ Blank(IF n = 0 THEN 0 ELSE spans[n].end, Len(text))
           /\ Len(ret.value) = n
           /\ \A k \in 1..n : ret.value[k].token = spans[k].token

\* The export located the same token twice in "a a", the second time at 2.
C27_Witness ==
    /\ ret.op = "conll_tokens"
    /\ tasks[ret.task].text = <<"a", " ", "a">>
    /\ ret.spans[1].start = 0
    /\ ret.spans[2].start = 2

\* C28: the tags export_conll_format answers form a well-formed BIO sequence: a
\* token tagged I-X is not the first token and the token before it is tagged
\* B-X or I-X with the same X.
C28_BioWellFormed ==
    ret.op = "export_conll_format" =>
        \A k \in 1..Len(ret.value) :
            LET label == ret.value[k].label
            IN (Len(label) >= 2 /\ SubSeq(label, 1, 2) = "I-") =>
                  /\ k > 1
                  /\ ret.value[k - 1].label
                        \in { "B-" \o SubSeq(label, 3, Len(label)),
                              "I-" \o SubSeq(label, 3, Len(label)) }

\* C29: whatever the order and interleaving, a step of a legacy create_task or
\* create_tag request that makes a project named "Default Project" makes the
\* only one, and every create_task request with text is answered with success
\* and its task belongs to a project of that name.
C29_DefaultProjectSafe ==
    [][/\ (/\ tasks' # tasks \/ labels' # labels \/ edits' # edits \/ ret' # ret
           /\ Cardinality(NamedProjects(DefaultProjectName)') >
                 Cardinality(NamedProjects(DefaultProjectName)))
          => Cardinality(NamedProjects(DefaultProjectName)') = 1
       /\ (ret' # ret /\ ret'.op = "create_task" /\ ret'.status # 400)
          => /\ ret'.status = 200
             /\ projects'[tasks'[ret'.task].project].name = DefaultProjectName]_vars

\* C30: in every reachable state, for every task of a project whose
\* allow_overlapping_annotations is false, get_overlapping_annotations answers
\* the empty list.
C30_NoOverlapWhenDisallowed ==
    \A p \in DOMAIN projects :
        ~ projects[p].allow_overlapping_annotations =>
            \A t \in TasksOf(p) :
                \A order \in OrderByStart(t) : GetOverlappingAnnotations(order) = <<>>
====
